---- MODULE Spec2Model ----
(***************************************************************************)
(* Model of the mirroring core of moonbit-registry-tools:                  *)
(*   - matchGlob / compareVersions (pure helpers of the resolver),         *)
(*   - PackageStore.downloadPackage, one step per suspension point,        *)
(*   - DependencyResolver.resolve and Registry.mirror.                     *)
(* Strings that the code inspects character by character (package ids,     *)
(* glob patterns, versions) are sequences of one-character strings.        *)
(***************************************************************************)
EXTENDS Integers, Sequences, FiniteSets, TLC

VARIABLES
    gStr,       \* matchGlob: the str argument
    gPattern,   \* matchGlob: the pattern argument
    gCalled,    \* matchGlob: TRUE once the call has returned
    gOut,       \* matchGlob: the result (FALSE before the call)
    files,      \* package cache: artifact <<id, version>> -> content of its .zip
    dirs,       \* package ids whose cache directory <packages>/<owner>/<name> exists
    dl,         \* per process: the downloadPackage call it runs (position, arguments, locals)
    calls,      \* number of direct downloadPackage calls made so far
    initFiles,  \* the cache as it was before the first call (never changes)
    allChecked, \* TRUE while every call made so far supplied a checksum
    index,      \* the source's index: package id -> [state, versions]
    opts,       \* MirrorOptions: [patterns, full, strict, quiet]
    rpc,        \* position of resolve: "uncalled", "idle", "closure", "annotate", "done"
    res,        \* DependencyResolution: [packages, skipped, cached]
    toProcess,  \* the closure's worklist (a Set, in insertion order)
    processed,  \* the closure's processed set
    visits,     \* per package id: times it was taken through the loop body
    mpc,        \* position of mirror: "start", "loop", "versions", "awaiting", "done"
    toDownload, \* the packages of the resolution still to be handled
    curPkg,     \* the package whose versions are being downloaded
    verQueue,   \* the versions of curPkg still to be looked at
    downloaded, \* the run's success counter
    failed,     \* the run's failure counter
    mRaised,    \* number of downloadPackage calls of the run that raised
    config,     \* RegistryConfig: [sources, default_source, upstream]
    sourceManager, \* the Registry's SourceManager: [sources, defaultSourceName]
    sLast,      \* the last call on the Registry's sources: [op, name, ok, out, wasDefault]
    fb,         \* downloadPackageWithFallback: [pc, queue, tried, reach, cached]
    mSource,    \* mirror: options.source ("" when omitted)
    mSel,       \* mirror: the source it selected (empty before the selection)
    idxExists,  \* TRUE when the selected source's index directory exists on disk
    remote,     \* the content of the source's index repository
    syncRes,    \* what syncSourceIndex did: "none", "pull", "cloned", "clone-failed", "http"
    mTried,     \* the sources downloadPackage was called with for the current version
    mIndexPath, \* the directory syncSourceIndex synced, under the index directory
    indexFiles, \* the package files under the index root: path -> text
    wr,         \* the writePackageEntry call: its position, entry, text read, count
    wr2,        \* a writePackageEntry call made while the other is in flight
    written,    \* per package file, the entries of the calls that completed
    tree,       \* the directory at a source's index path: its entries and theirs
    listed      \* the listPackagesFromSource call: made or not, and its result

globVars == <<gStr, gPattern, gCalled, gOut>>
storeVars == <<files, dirs, dl, calls, initFiles, allChecked>>
resolveVars == <<index, opts, rpc, res, toProcess, processed, visits>>
mirrorVars == <<mpc, toDownload, curPkg, verQueue, downloaded, failed, mRaised>>
sourceVars == <<config, sourceManager, sLast>>
fallbackVars == <<fb>>
headVars == <<mSource, mSel, idxExists, remote, syncRes>>
indexVars == <<mIndexPath, indexFiles, wr, wr2, written>>
listVars == <<tree, listed>>
vars == <<globVars, storeVars, resolveVars, mirrorVars, sourceVars, fallbackVars,
          headVars, mTried, indexVars, listVars>>

(***************************************************************************)
(* Bounds                                                                  *)
(***************************************************************************)
MaxStrLen == 3
MaxPatLen == 3

\* characters the glob inputs are drawn from: a plain character, the id
\* separator, one regex metacharacter, the two glob wildcards and a line
\* terminator
GlobChars == {"a", "/", ".", "*", "?", "\n"}

RECURSIVE SeqsUpTo(_, _)
SeqsUpTo(S, n) ==
    IF n = 0 THEN {<<>>}
    ELSE LET shorter == SeqsUpTo(S, n - 1)
         IN  shorter \cup {Append(s, c) : s \in {t \in shorter : Len(t) = n - 1}, c \in S}

(***************************************************************************)
(* matchGlob: the pattern is rewritten into a regular expression by three  *)
(* String.replace passes, then tested anchored (^...$) against the string. *)
(***************************************************************************)

\* the character class of the first replace: [.+^${}()|[\]\\]
RegexSpecial == {".", "+", "^", "$", "{", "}", "(", ")", "|", "[", "]", "\\"}

\* characters the regex '.' does not match (no s flag)
LineTerminators == {"\n", "\r"}

\* .replace(/[.+^${}()|[\]\\]/g, "\\$&")
RECURSIVE EscapeSpecial(_)
EscapeSpecial(p) ==
    IF p = <<>> THEN <<>>
    ELSE (IF Head(p) \in RegexSpecial THEN <<"\\", Head(p)>> ELSE <<Head(p)>>)
         \o EscapeSpecial(Tail(p))

\* .replace(/\*/g, ".*")
RECURSIVE ReplaceStar(_)
ReplaceStar(p) ==
    IF p = <<>> THEN <<>>
    ELSE (IF Head(p) = "*" THEN <<".", "*">> ELSE <<Head(p)>>)
         \o ReplaceStar(Tail(p))

\* .replace(/\?/g, ".")
RECURSIVE ReplaceQuestion(_)
ReplaceQuestion(p) ==
    IF p = <<>> THEN <<>>
    ELSE (IF Head(p) = "?" THEN <<".">> ELSE <<Head(p)>>)
         \o ReplaceQuestion(Tail(p))

GlobToRegex(pattern) == ReplaceQuestion(ReplaceStar(EscapeSpecial(pattern)))

\* The regular expression as a sequence of atoms [kind, ch, quant]:
\* "\c" is the literal c, "." is any character but a line terminator, any
\* other character is itself; a following "*" or "?" quantifies the atom.
RECURSIVE ParseRegex(_)
ParseRegex(r) ==
    IF r = <<>> THEN <<>>
    ELSE LET esc  == Head(r) = "\\" /\ Len(r) >= 2
             used == IF esc THEN 2 ELSE 1
             kind == IF ~esc /\ Head(r) = "." THEN "any" ELSE "lit"
             ch   == IF esc THEN r[2] ELSE Head(r)
             rest == SubSeq(r, used + 1, Len(r))
             q    == IF rest # <<>> /\ Head(rest) = "*" THEN "star"
                     ELSE IF rest # <<>> /\ Head(rest) = "?" THEN "opt"
                     ELSE "one"
             rest2 == IF q = "one" THEN rest ELSE Tail(rest)
         IN  <<[kind |-> kind, ch |-> ch, quant |-> q]>> \o ParseRegex(rest2)

AtomFits(atom, c) ==
    IF atom.kind = "any" THEN c \notin LineTerminators ELSE c = atom.ch

\* new RegExp(`^${regexPattern}$`).test(str), over the parsed atoms
RECURSIVE RegexFullMatch(_, _)
RegexFullMatch(atoms, s) ==
    IF atoms = <<>> THEN s = <<>>
    ELSE LET a == Head(atoms)
             stepOne == s # <<>> /\ AtomFits(a, Head(s))
         IN  CASE a.quant = "one"  -> stepOne /\ RegexFullMatch(Tail(atoms), Tail(s))
               [] a.quant = "opt"  -> \/ RegexFullMatch(Tail(atoms), s)
                                      \/ stepOne /\ RegexFullMatch(Tail(atoms), Tail(s))
               [] a.quant = "star" -> \/ RegexFullMatch(Tail(atoms), s)
                                      \/ stepOne /\ RegexFullMatch(atoms, Tail(s))

\* each stage is bound once, as the code's const regexPattern and regex are
matchGlob(str, pattern) ==
    \E regexPattern \in {GlobToRegex(pattern)} :
        \E regex \in {ParseRegex(regexPattern)} : RegexFullMatch(regex, str)

(***************************************************************************)
(* The glob semantics the specification states, defined on the pattern     *)
(* itself: '*' is any possibly empty run, '?' is exactly one character,    *)
(* every other character stands for itself, the whole string is consumed.  *)
(***************************************************************************)
RECURSIVE GlobDenotes(_, _)
GlobDenotes(str, pattern) ==
    IF pattern = <<>> THEN str = <<>>
    ELSE CASE Head(pattern) = "*" ->
                \E k \in 0..Len(str) :
                    GlobDenotes(SubSeq(str, k + 1, Len(str)), Tail(pattern))
           [] Head(pattern) = "?" ->
                str # <<>> /\ GlobDenotes(Tail(str), Tail(pattern))
           [] OTHER ->
                str # <<>> /\ Head(str) = Head(pattern)
                           /\ GlobDenotes(Tail(str), Tail(pattern))

(***************************************************************************)
(* Checksums.  A file content is a small integer; 0 is the content of a    *)
(* file that Bun.write has opened (truncated) and not yet filled.          *)
(***************************************************************************)
Bodies == {1, 2}            \* response bodies an upstream can send
Truncated == 0
Contents == Bodies \cup {Truncated}

\* sha256File: the lowercase hex digest of a content (distinct per content)
Sha256Hex(c) ==
    CASE c = 0 -> <<"e", "0">>
      [] c = 1 -> <<"a", "1">>
      [] c = 2 -> <<"b", "2">>

\* String.prototype.toLowerCase on the characters a digest can hold
LowerChar(c) ==
    CASE c = "A" -> "a" [] c = "B" -> "b" [] c = "C" -> "c"
      [] c = "D" -> "d" [] c = "E" -> "e" [] c = "F" -> "f"
      [] OTHER -> c

toLowerCase(s) == [i \in 1..Len(s) |-> LowerChar(s[i])]

\* verifyChecksum with toLowerCase dropped from the expected side
verifyChecksumCaseMutant(content, expected) ==
    toLowerCase(Sha256Hex(content)) = expected

\* verifyChecksum(path, expected): actual.toLowerCase() === expected.toLowerCase()
verifyChecksum(content, expected) ==
    toLowerCase(Sha256Hex(content)) = toLowerCase(expected)

\* the optional expectedChecksum argument when it is left out
Undefined == <<"undefined">>

\* the values passed as expectedChecksum: left out, the empty string, the
\* digest of body 1 in lower and in upper case
ExpectedPool == {Undefined, <<>>, <<"a", "1">>, <<"A", "1">>}

\* JavaScript truthiness of `if (expectedChecksum)`
Truthy(e) == e # Undefined /\ e # <<>>

(***************************************************************************)
(* PackageStore.downloadPackage, one action per suspension point           *)
(***************************************************************************)
\* the calls that can be in flight at once: a mirror run uses the first
DlProcs == {1, 2}
MaxCalls == 2

HttpStatuses == {200, 404}
\* response.ok taken to hold for every status
ResponseOkMutant(status) == TRUE

ResponseOk(status) == status >= 200 /\ status <= 299

NoContent == -1

IdleCall ==
    [pc |-> "idle", art |-> <<>>, expected |-> Undefined, data |-> NoContent,
     status |-> 0, fetches |-> 0, stale |-> FALSE,
     entryFile |-> NoContent, entryDir |-> FALSE, err |-> "none"]

Terminal == {"idle", "returned", "raised", "killed"}
Executing(p) == dl[p].pc \notin Terminal

\* hasPackage / existsSync(getPackagePath(...))
hasPackage(art) == art \in DOMAIN files

DirOf(art) == art[1]

\* fs.remove that leaves the file in place
FileRemovedMutant(art) == files

FileRemoved(art) == [a \in DOMAIN files \ {art} |-> files[a]]
FileWritten(art, c) == [a \in DOMAIN files \cup {art} |-> IF a = art THEN c ELSE files[a]]

\* the synchronous head of downloadPackage, up to its first await
BeginDownload(art, expected) ==
    LET base == [IdleCall EXCEPT !.art = art, !.expected = expected,
                     !.entryFile = IF hasPackage(art) THEN files[art] ELSE NoContent,
                     !.entryDir = DirOf(art) \in dirs]
    IN  IF hasPackage(art)
        THEN IF Truthy(expected)
             THEN [base EXCEPT !.pc = "verify1"]
             ELSE [base EXCEPT !.pc = "returned"]
        ELSE [base EXCEPT !.pc = "fetch", !.fetches = 1]

\* everything the steps of downloadPackage leave alone besides files and dirs
dlFrame == <<globVars, calls, initFiles, allChecked, resolveVars, mirrorVars,
             sourceVars, fallbackVars, headVars, mTried, indexVars, listVars>>

\* await crypto.verifyChecksum on the cached file
DlVerifyCached ==
    \E p \in DlProcs :
      /\ dl[p].pc = "verify1"
      /\ dl' = [dl EXCEPT ![p] =
                  IF ~hasPackage(dl[p].art) THEN [dl[p] EXCEPT !.pc = "raised", !.err = "read"]
                  ELSE IF verifyChecksum(files[dl[p].art], dl[p].expected)
                       THEN [dl[p] EXCEPT !.pc = "returned"]
                       ELSE [dl[p] EXCEPT !.pc = "remove1", !.stale = TRUE]]
      /\ UNCHANGED <<files, dirs, dlFrame>>

\* await fs.remove(packagePath), then fetch(url) is issued
DlRemoveStale ==
    \E p \in DlProcs :
      /\ dl[p].pc = "remove1"
      /\ files' = FileRemoved(dl[p].art)
      /\ dl' = [dl EXCEPT ![p] = [dl[p] EXCEPT !.pc = "fetch", !.fetches = dl[p].fetches + 1]]
      /\ UNCHANGED <<dirs, dlFrame>>

\* the response arrives: !response.ok throws
DlFetchResponse ==
    \E p \in DlProcs :
      /\ dl[p].pc = "fetch"
      /\ \E status \in HttpStatuses :
           dl' = [dl EXCEPT ![p] =
                    [dl[p] EXCEPT !.status = status,
                                  !.pc = IF ResponseOk(status) THEN "body" ELSE "raised",
                                  !.err = IF ResponseOk(status) THEN "none" ELSE "response"]]
      /\ UNCHANGED <<files, dirs, dlFrame>>

\* await response.arrayBuffer()
DlBody ==
    \E p \in DlProcs :
      /\ dl[p].pc = "body"
      /\ \E data \in Bodies :
           dl' = [dl EXCEPT ![p] = [dl[p] EXCEPT !.data = data, !.pc = "ensure"]]
      /\ UNCHANGED <<files, dirs, dlFrame>>

\* await fs.ensureDir(join(packagesDir, username, name))
DlEnsureDir ==
    \E p \in DlProcs :
      /\ dl[p].pc = "ensure"
      /\ dirs' = dirs \cup {DirOf(dl[p].art)}
      /\ dl' = [dl EXCEPT ![p] = [dl[p] EXCEPT !.pc = "write"]]
      /\ UNCHANGED <<files, dlFrame>>

\* Bun.write opens the destination, truncating it
DlWriteOpen ==
    \E p \in DlProcs :
      /\ dl[p].pc = "write"
      /\ files' = FileWritten(dl[p].art, Truncated)
      /\ dl' = [dl EXCEPT ![p] = [dl[p] EXCEPT !.pc = "writing"]]
      /\ UNCHANGED <<dirs, dlFrame>>

\* Bun.write completes; without a checksum the call returns here
DlWriteDone ==
    \E p \in DlProcs :
      /\ dl[p].pc = "writing"
      /\ files' = FileWritten(dl[p].art, dl[p].data)
      /\ dl' = [dl EXCEPT ![p] =
                  [dl[p] EXCEPT !.pc = IF Truthy(dl[p].expected) THEN "verify2" ELSE "returned"]]
      /\ UNCHANGED <<dirs, dlFrame>>

\* a verification of the written file that never succeeds
DlVerifyWrittenMutant ==
    \E p \in DlProcs :
      /\ dl[p].pc = "verify2"
      /\ dl' = [dl EXCEPT ![p] = [dl[p] EXCEPT !.pc = "remove2"]]
      /\ UNCHANGED <<files, dirs, dlFrame>>

\* await crypto.verifyChecksum on the file just written
DlVerifyWritten ==
    \E p \in DlProcs :
      /\ dl[p].pc = "verify2"
      /\ dl' = [dl EXCEPT ![p] =
                  IF ~hasPackage(dl[p].art) THEN [dl[p] EXCEPT !.pc = "raised", !.err = "read"]
                  ELSE IF verifyChecksum(files[dl[p].art], dl[p].expected)
                       THEN [dl[p] EXCEPT !.pc = "returned"]
                       ELSE [dl[p] EXCEPT !.pc = "remove2"]]
      /\ UNCHANGED <<files, dirs, dlFrame>>

\* await fs.remove(packagePath), then throw
DlRemoveBad ==
    \E p \in DlProcs :
      /\ dl[p].pc = "remove2"
      /\ files' = FileRemoved(dl[p].art)
      /\ dl' = [dl EXCEPT ![p] = [dl[p] EXCEPT !.pc = "raised", !.err = "checksum"]]
      /\ UNCHANGED <<dirs, dlFrame>>

\* the process is interrupted (signal): every call in flight is abandoned
Interrupt ==
    /\ \E p \in DlProcs : Executing(p)
    /\ dl' = [p \in DlProcs |-> IF Executing(p) THEN [dl[p] EXCEPT !.pc = "killed"] ELSE dl[p]]
    /\ UNCHANGED <<files, dirs, dlFrame>>

(***************************************************************************)
(* Package ids, versions and the index                                     *)
(***************************************************************************)
IdAX == <<"a", "/", "x">>
IdAY == <<"a", "/", "y">>
IdBZ == <<"b", "/", "z">>
V10 == <<"1", ".", "0">>
V20 == <<"2", ".", "0">>

IdQ == <<"q">>

\* the ids an index file can exist for, in the order listDir reports them
IndexIds == {IdAX, IdBZ}
ListingOrder == <<IdAX, IdBZ>>

\* the names a deps map can hold: the indexed ids, an id no index file exists
\* for, and a name that is not of the form owner/name
DepNames == {IdAX, IdBZ, IdAY, IdQ}

\* str.split(sep) for a one-character separator
RECURSIVE Split(_, _)
Split(s, sep) ==
    IF \A i \in 1..Len(s) : s[i] # sep THEN <<s>>
    ELSE LET k == CHOOSE i \in 1..Len(s) : s[i] = sep /\ \A j \in 1..(i - 1) : s[j] # sep
         IN  <<SubSeq(s, 1, k - 1)>> \o Split(SubSeq(s, k + 1, Len(s)), sep)

\* parsePackageId: exactly two non-empty '/'-separated parts, else null
parsePackageId(id) ==
    LET parts == Split(id, "/")
    IN  Len(parts) = 2 /\ parts[1] # <<>> /\ parts[2] # <<>>

Digits == {"0", "1", "2", "3", "4", "5", "6", "7", "8", "9"}
DigitVal(c) ==
    CASE c = "0" -> 0 [] c = "1" -> 1 [] c = "2" -> 2 [] c = "3" -> 3 [] c = "4" -> 4
      [] c = "5" -> 5 [] c = "6" -> 6 [] c = "7" -> 7 [] c = "8" -> 8 [] c = "9" -> 9

\* Number.parseInt(p, 10) || 0: the leading decimal digits, 0 when there are none
RECURSIVE LeadingDigits(_, _)
LeadingDigits(s, acc) ==
    IF s = <<>> \/ Head(s) \notin Digits THEN acc
    ELSE LeadingDigits(Tail(s), 10 * acc + DigitVal(Head(s)))

ParseIntOrZero(s) ==
    IF s # <<>> /\ Head(s) = "-" THEN 0 - LeadingDigits(Tail(s), 0)
    ELSE LeadingDigits(s, 0)

\* the one element of a singleton: binds a value that is computed once
Only(S) == CHOOSE x \in S : TRUE

VersionParts(v) ==
    Only({[i \in 1..Len(ps) |-> ParseIntOrZero(ps[i])] : ps \in {Split(v, ".")}})

RECURSIVE CompareParts(_, _, _, _)
CompareParts(pa, pb, i, maxLen) ==
    IF i > maxLen THEN 0
    ELSE LET numA == IF i <= Len(pa) THEN pa[i] ELSE 0
             numB == IF i <= Len(pb) THEN pb[i] ELSE 0
         IN  IF numA # numB THEN numA - numB ELSE CompareParts(pa, pb, i + 1, maxLen)

\* a comparison that stops after the first part
compareVersionsMutant(a, b) ==
    Only({CompareParts(partsA, partsB, 1, 1) :
          partsA \in {VersionParts(a)}, partsB \in {VersionParts(b)}})

\* compareVersions(a, b): negative, zero or positive
compareVersions(a, b) ==
    Only({CompareParts(partsA, partsB, 1,
                       IF Len(partsA) > Len(partsB) THEN Len(partsA) ELSE Len(partsB)) :
          partsA \in {VersionParts(a)}, partsB \in {VersionParts(b)}})

\* Array.prototype.sort with the comparator (a, b) => compareVersions(b.version,
\* a.version): a stable sort, here by insertion
RECURSIVE InsertDesc(_, _)
InsertDesc(sorted, v) ==
    IF sorted = <<>> THEN <<v>>
    ELSE IF compareVersions(v.version, Head(sorted).version) > 0
         THEN <<v>> \o sorted
         ELSE <<Head(sorted)>> \o InsertDesc(Tail(sorted), v)

RECURSIVE SortDesc(_)
SortDesc(vs) ==
    IF vs = <<>> THEN <<>>
    ELSE Only({InsertDesc(front, last) :
               front \in {SortDesc(SubSeq(vs, 1, Len(vs) - 1))}, last \in {vs[Len(vs)]}})

NotYanked(vs) == SelectSeq(vs, LAMBDA v : ~v.yanked)


\* a getLatestVersion that does not filter the yanked versions out
getLatestVersionMutant(versions) ==
    IF versions = <<>> THEN <<>> ELSE <<SortDesc(versions)[1]>>

\* getLatestVersion(metadata): <<>> for null, else <<the version>>
getLatestVersion(versions) ==
    Only({IF sorted = <<>> THEN <<>> ELSE <<sorted[1]>> :
          sorted \in {Only({SortDesc(kept) : kept \in {NotYanked(versions)}})}})

\* getPackageFromSource: null when the index file is absent or does not parse
HasMetadata(id) == id \in IndexIds /\ index[id].state = "ok"
Metadata(id) == IF HasMetadata(id) THEN index[id].versions ELSE <<>>

\* getPackageFromSource(username, name, sourceName) as its caller sees it: null
\* when the index file is missing, null again when reading it throws (the
\* error is logged in the catch block), else the metadata; <<>> is null and
\* <<versions>> the metadata
getPackageFromSource(id) ==
    IF id \notin IndexIds \/ index[id].state = "absent" THEN <<>>
    ELSE IF index[id].state = "corrupt" THEN <<>>
    ELSE <<index[id].versions>>

SeqToSet(q) == {q[i] : i \in 1..Len(q)}

\* Set.prototype.add on a Set kept in insertion order
SetAdd(q, x) == IF x \in SeqToSet(q) THEN q ELSE Append(q, x)

\* a delete that leaves the element in the Set
SetDeleteMutant(q, x) == q

\* Set.prototype.delete
SetDelete(q, x) == SelectSeq(q, LAMBDA y : y # x)

RECURSIVE SetAddAll(_, _)
SetAddAll(q, xs) == IF xs = <<>> THEN q ELSE SetAddAll(SetAdd(q, Head(xs)), Tail(xs))

\* listPackagesFromSource: every file of every owner directory
listPackagesFromSource == SelectSeq(ListingOrder, LAMBDA id : index[id].state # "absent")

\* listPackagesMatchingFromSource(pattern)
listPackagesMatchingFromSource(pattern) ==
    SelectSeq(listPackagesFromSource, LAMBDA id : matchGlob(id, pattern))

\* matchPatterns(patterns, full)
RECURSIVE MatchedSet(_, _)
MatchedSet(patterns, matched) ==
    IF patterns = <<>> THEN matched
    ELSE MatchedSet(Tail(patterns),
                    SetAddAll(matched, listPackagesMatchingFromSource(Head(patterns))))

\* matchPatterns that returns the whole listing whatever the patterns
matchPatternsMutant(patterns, full) == listPackagesFromSource

matchPatterns(patterns, full) ==
    IF full THEN listPackagesFromSource ELSE MatchedSet(patterns, <<>>)

\* a test that succeeds as soon as there is a pattern
MatchesAnyMutant(name, patterns) == patterns # <<>>

\* originalPatterns.some((p) => matchGlob(depName, p))
MatchesAny(name, patterns) == \E i \in 1..Len(patterns) : matchGlob(name, patterns[i])

(***************************************************************************)
(* DependencyResolver.resolve                                              *)
(***************************************************************************)
MapPut(f, k, v) == [x \in DOMAIN f \cup {k} |-> IF x = k THEN v ELSE f[x]]

\* the body of `for (const depName of Object.keys(latestVersion.deps))`,
\* over st = [packages, toProcess, skipped]
\* a loop body that records only the first package requiring a skipped
\* dependency
DepStepFirstOnlyMutant(st, depName, pkgName, patterns) ==
    IF depName \in SeqToSet(st.packages) THEN st
    ELSE IF MatchesAny(depName, patterns)
         THEN [st EXCEPT !.packages = Append(st.packages, depName),
                         !.toProcess = SetAdd(st.toProcess, depName)]
         ELSE IF depName \in DOMAIN st.skipped THEN st
         ELSE [st EXCEPT !.skipped = MapPut(st.skipped, depName, <<pkgName>>)]

\* a loop body that looks at the patterns before it looks at packages
DepStepUnseenMutant(st, depName, pkgName, patterns) ==
    IF MatchesAny(depName, patterns)
    THEN IF depName \in SeqToSet(st.packages) THEN st
         ELSE [st EXCEPT !.packages = Append(st.packages, depName),
                         !.toProcess = SetAdd(st.toProcess, depName)]
    ELSE [st EXCEPT !.skipped =
             MapPut(st.skipped, depName,
                    Append(IF depName \in DOMAIN st.skipped
                           THEN st.skipped[depName] ELSE <<>>, pkgName))]

\* a loop body that records every new dependency as skipped, matched or not
DepStepSkipMutant(st, depName, pkgName, patterns) ==
    IF depName \in SeqToSet(st.packages) THEN st
    ELSE [st EXCEPT !.skipped =
             MapPut(st.skipped, depName,
                    Append(IF depName \in DOMAIN st.skipped
                           THEN st.skipped[depName] ELSE <<>>, pkgName))]

DepStepMutant(st, depName, pkgName, patterns) ==
    IF depName \in SeqToSet(st.packages) THEN st
    ELSE [st EXCEPT !.packages = Append(st.packages, depName),
                    !.toProcess = SetAdd(st.toProcess, depName)]

DepStep(st, depName, pkgName, patterns) ==
    IF depName \in SeqToSet(st.packages) THEN st
    ELSE IF MatchesAny(depName, patterns)
         THEN [st EXCEPT !.packages = Append(st.packages, depName),
                         !.toProcess = SetAdd(st.toProcess, depName)]
         ELSE [st EXCEPT !.skipped =
                  MapPut(st.skipped, depName,
                         Append(IF depName \in DOMAIN st.skipped
                                THEN st.skipped[depName] ELSE <<>>, pkgName))]

RECURSIVE DepLoop(_, _, _, _)
DepLoop(st, deps, pkgName, patterns) ==
    IF deps = <<>> THEN st
    ELSE DepLoop(DepStep(st, Head(deps), pkgName, patterns), Tail(deps), pkgName, patterns)

\* isPackageCached(pkgName): some listed version has a file in the store
isPackageCached(pkgName) ==
    /\ parsePackageId(pkgName)
    /\ HasMetadata(pkgName)
    /\ \E i \in 1..Len(Metadata(pkgName)) : hasPackage(<<pkgName, Metadata(pkgName)[i].version>>)

EmptyResult == [packages |-> <<>>, skipped |-> <<>>, cached |-> {}]

\* logSkippedWarnings(result, quiet): the dependencies a warning is logged for
logSkippedWarnings(result, quiet) ==
    IF quiet THEN {}
    ELSE {dep \in DOMAIN result.skipped : dep \notin result.cached}

resolveFrame == <<globVars, storeVars, index, opts, mirrorVars,
                  sourceVars, fallbackVars, headVars, mTried, indexVars, listVars>>

\* resolve up to the closure: result.packages := matchPatterns(...)
ResolveBegin ==
    /\ rpc = "idle"
    /\ res' = [EmptyResult EXCEPT !.packages = SetAddAll(<<>>, matchPatterns(opts.patterns, opts.full))]
    /\ IF opts.strict
       THEN /\ rpc' = "annotate"
            /\ toProcess' = <<>>
       ELSE /\ rpc' = "closure"
            /\ toProcess' = SetAddAll(<<>>, matchPatterns(opts.patterns, opts.full))
    /\ UNCHANGED <<processed, visits, resolveFrame>>

\* the body of `while (toProcess.size > 0)` for the package taken
ClosureStepOn(taken) ==
    /\ rpc = "closure"
    /\ toProcess # <<>>
    /\ \E pkgName \in {taken}, rest \in {SetDelete(toProcess, taken)},
          latest \in {getLatestVersion(Metadata(taken))} :
           IF pkgName \in processed
           THEN /\ toProcess' = rest
                /\ UNCHANGED <<processed, visits, res>>
           ELSE /\ processed' = processed \cup {pkgName}
                /\ visits' = [visits EXCEPT ![pkgName] = @ + 1]
                /\ IF /\ parsePackageId(pkgName)
                      /\ HasMetadata(pkgName)
                      /\ latest # <<>>
                   THEN \E st \in {DepLoop([packages |-> res.packages, toProcess |-> rest,
                                            skipped |-> res.skipped],
                                           latest[1].deps, pkgName, opts.patterns)} :
                            /\ res' = [res EXCEPT !.packages = st.packages,
                                                  !.skipped = st.skipped]
                            /\ toProcess' = st.toProcess
                   ELSE /\ toProcess' = rest
                        /\ UNCHANGED res
    /\ UNCHANGED <<rpc, resolveFrame>>

\* one iteration of `while (toProcess.size > 0)`: toProcess.values().next()
\* is the element that was added first
ClosureStep == toProcess # <<>> /\ ClosureStepOn(Head(toProcess))

\* the same iteration with the worklist drained in any order
ClosureStepAnyOrder == \E taken \in SeqToSet(toProcess) : ClosureStepOn(taken)

\* the worklist is empty: the closure returns
ClosureEnd ==
    /\ rpc = "closure"
    /\ toProcess = <<>>
    /\ rpc' = "annotate"
    /\ UNCHANGED <<res, toProcess, processed, visits, resolveFrame>>

\* `for (const pkgName of result.packages) if (await isPackageCached(...))`
AnnotateCached ==
    /\ rpc = "annotate"
    /\ res' = [res EXCEPT !.cached = {p \in SeqToSet(res.packages) : isPackageCached(p)}]
    /\ rpc' = "done"
    /\ UNCHANGED <<toProcess, processed, visits, resolveFrame>>

(***************************************************************************)
(* IndexManager.writePackageEntry, appendJsonl, readJsonl, getPackage.     *)
(* A file's text is a sequence of characters; an entry carries the fields  *)
(* of PackageEntry, yanked being <<>> where the field is undefined.        *)
(***************************************************************************)
MaxWrites == 2

\* a version string with a line terminator in it
VNl == <<"1", "\n">>

EntryPool ==
    [name : {IdAX, IdBZ, IdQ}, version : {V10, VNl}, checksum : {<<"a", "1">>},
     deps : {<<IdAX>>}, yanked : {<<>>, <<TRUE>>, <<FALSE>>}]

\* getPackageIndexPath(username, packageName), relative to the index root
getPackageIndexPath(username, packageName) == <<username, packageName>>

PkgPaths == {getPackageIndexPath(Split(id, "/")[1], Split(id, "/")[2]) : id \in {IdAX, IdBZ}}

\* the characters of a JSON string literal: quotes, backslashes and line
\* feeds are written as escapes
RECURSIVE JsonEscape(_)
JsonEscape(s) ==
    IF s = <<>> THEN <<>>
    ELSE (CASE Head(s) = "\n" -> <<"\\", "n">>
            [] Head(s) \in {"\"", "\\"} -> <<"\\", Head(s)>>
            [] OTHER -> <<Head(s)>>) \o JsonEscape(Tail(s))

JsonString(s) == <<"\"">> \o JsonEscape(s) \o <<"\"">>

RECURSIVE JsonStrings(_)
JsonStrings(ss) ==
    IF ss = <<>> THEN <<>>
    ELSE JsonString(Head(ss)) \o (IF Tail(ss) = <<>> THEN <<>> ELSE <<",">>)
                              \o JsonStrings(Tail(ss))

\* JSON.stringify(entry): one line, the fields in order, an undefined yanked
\* left out
JsonStringify(e) ==
    <<"{">> \o JsonString(e.name) \o <<",">> \o JsonString(e.version) \o <<",">>
            \o JsonString(e.checksum) \o <<",", "[">> \o JsonStrings(e.deps) \o <<"]">>
            \o (IF e.yanked = <<>> THEN <<>> ELSE <<",", IF e.yanked[1] THEN "t" ELSE "f">>)
            \o <<"}">>

\* JSON.parse(line): the entry the text is the JSON of, <<>> where it throws
JsonParse(line) ==
    LET es == {e \in EntryPool : JsonStringify(e) = line}
    IN  IF es = {} THEN <<>> ELSE <<CHOOSE e \in es : TRUE>>

\* an appendJsonl that writes the new line over the file
appendJsonlMutant(existing, item) == JsonStringify(item) \o <<"\n">>

\* appendJsonl(path, item): the text written, existing + line
appendJsonl(existing, item) == existing \o JsonStringify(item) \o <<"\n">>

Whitespace == {" ", "\t", "\n", "\r"}

\* readJsonl(path): the lines with something on them, each parsed; <<>> where
\* a JSON.parse throws, else the list of items in a one-element sequence
readJsonl(content) ==
    LET lines == SelectSeq(Split(content, "\n"),
                           LAMBDA line : \E i \in 1..Len(line) : line[i] \notin Whitespace)
    IN  IF \E i \in 1..Len(lines) : JsonParse(lines[i]) = <<>> THEN <<>>
        ELSE <<[i \in 1..Len(lines) |-> JsonParse(lines[i])[1]]>>

\* entries.map((e) => ({version, checksum, deps, yanked}))
VersionsOf(entries) ==
    [i \in 1..Len(entries) |->
        [version |-> entries[i].version, checksum |-> entries[i].checksum,
         deps |-> entries[i].deps, yanked |-> entries[i].yanked]]

\* getPackage(username, packageName): <<>> for null (no file, or a read that
\* threw), else the versions in a one-element sequence
getPackage(username, packageName) ==
    LET indexPath == getPackageIndexPath(username, packageName)
    IN  IF indexPath \notin DOMAIN indexFiles THEN <<>>
        ELSE IF readJsonl(indexFiles[indexPath]) = <<>> THEN <<>>
        ELSE <<VersionsOf(readJsonl(indexFiles[indexPath])[1])>>

NoWrite == [pc |-> "idle", entry |-> <<>>, existing |-> <<>>, n |-> 0]

writeFrame == <<globVars, storeVars, resolveVars, mirrorVars, sourceVars, fallbackVars,
                headVars, mTried, mIndexPath, listVars>>

\* const existing = (await file.exists()) ? await file.text() : ""
ReadExisting(call) ==
    LET indexPath == Split(call.entry[1].name, "/")
    IN  [call EXCEPT !.pc = "write",
                     !.existing = IF indexPath \in DOMAIN indexFiles
                                  THEN indexFiles[indexPath] ELSE <<>>]

\* await Bun.write(path, existing + line): the files after it
WriteBack(call) ==
    LET indexPath == Split(call.entry[1].name, "/")
    IN  [p \in DOMAIN indexFiles \cup {indexPath} |->
            IF p = indexPath THEN appendJsonl(call.existing, call.entry[1])
            ELSE indexFiles[p]]

\* writePackageEntry(entry) up to the read in appendJsonl: the name is
\* parsed, and the call raises on a name that is not owner/name
WritePackageEntry ==
    /\ wr.pc \in {"idle", "returned", "raised"}
    /\ wr.n < MaxWrites
    /\ \E entry \in EntryPool :
           wr' = [pc |-> IF parsePackageId(entry.name) THEN "read" ELSE "raised",
                  entry |-> <<entry>>, existing |-> <<>>, n |-> wr.n + 1]
    /\ UNCHANGED <<indexFiles, written, wr2, writeFrame>>

AppendRead ==
    /\ wr.pc = "read"
    /\ wr' = ReadExisting(wr)
    /\ UNCHANGED <<indexFiles, written, wr2, writeFrame>>

\* the write, and the call returns
AppendWrite ==
    /\ wr.pc = "write"
    /\ indexFiles' = WriteBack(wr)
    /\ written' = [written EXCEPT ![Split(wr.entry[1].name, "/")] = Append(@, wr.entry[1])]
    /\ wr' = [wr EXCEPT !.pc = "returned"]
    /\ UNCHANGED <<wr2, writeFrame>>

\* a second writePackageEntry(entry) for the same package, begun while the
\* first call is at one of its awaits
OverlapCall ==
    /\ wr.pc \in {"read", "write"}
    /\ wr2.pc = "idle"
    /\ \E entry \in EntryPool :
           /\ entry.name = wr.entry[1].name
           /\ wr2' = [pc |-> "read", entry |-> <<entry>>, existing |-> <<>>, n |-> 1]
    /\ UNCHANGED <<indexFiles, written, wr, writeFrame>>

OverlapRead ==
    /\ wr2.pc = "read"
    /\ wr2' = ReadExisting(wr2)
    /\ UNCHANGED <<indexFiles, written, wr, writeFrame>>

OverlapWrite ==
    /\ wr2.pc = "write"
    /\ indexFiles' = WriteBack(wr2)
    /\ written' = [written EXCEPT ![Split(wr2.entry[1].name, "/")] = Append(@, wr2.entry[1])]
    /\ wr2' = [wr2 EXCEPT !.pc = "returned"]
    /\ UNCHANGED <<wr, writeFrame>>

(***************************************************************************)
(* IndexManager.listPackagesFromSource / listPackagesInDir over the        *)
(* directory at the source's index path.  An entry is absent ("none"), a   *)
(* regular file or a directory; names are strings of characters.           *)
(***************************************************************************)
SourcesDirName == <<"s", "o", "u", "r", "c", "e", "s">>

\* the names readdir(dir) can return, in the order it returns them
TopNames == <<(<<".", "g">>), (<<"a">>), (<<"s">>), SourcesDirName>>

\* the names readdir(userDir) can return, in the order it returns them
SubNames == <<(<<".", "h">>), (<<"x">>)>>

Kinds == {"none", "file", "dir"}

\* no directory at the index path
NoTree == [exists |-> FALSE, kind |-> <<>>, sub |-> <<>>]

\* the directories the index path can be: missing, or there with entries of
\* which only the directories have entries of their own
Trees ==
    {NoTree} \cup
    {t \in [exists : {TRUE},
            kind : [SeqToSet(TopNames) -> Kinds],
            sub : [SeqToSet(TopNames) -> [SeqToSet(SubNames) -> Kinds]]] :
        \A u \in SeqToSet(TopNames) :
            t.kind[u] # "dir" => \A f \in SeqToSet(SubNames) : t.sub[u][f] = "none"}

NotListed == [called |-> FALSE, out |-> <<>>]

\* fs.listDir(dir): the names present, in readdir order
listDir(names, kindOf) == SelectSeq(names, LAMBDA n : kindOf[n] # "none")

\* user.startsWith(".")
startsWithDot(user) == user # <<>> /\ user[1] = "."

\* the inner loop: `${user}/${pkg}` for every pkg of userDir that is a file
RECURSIVE UserPackages(_, _, _)
UserPackages(t, user, pkgs) ==
    IF pkgs = <<>> THEN <<>>
    ELSE (IF t.sub[user][Head(pkgs)] = "file"
          THEN <<user \o <<"/">> \o Head(pkgs)>> ELSE <<>>)
         \o UserPackages(t, user, Tail(pkgs))

\* a listing that passes over the hidden directories only
SkippedUserMutant(user) == startsWithDot(user)

\* `if (user.startsWith(".") || user === "sources") continue`
SkippedUser(user) == startsWithDot(user) \/ user = SourcesDirName

\* the outer loop over the entries of dir
RECURSIVE UsersPackages(_, _)
UsersPackages(t, users) ==
    IF users = <<>> THEN <<>>
    ELSE (IF SkippedUser(Head(users)) \/ t.kind[Head(users)] # "dir" THEN <<>>
          ELSE UserPackages(t, Head(users), listDir(SubNames, t.sub[Head(users)])))
         \o UsersPackages(t, Tail(users))

\* listPackagesInDir(dir)
listPackagesInDir(t) ==
    IF ~t.exists THEN <<>> ELSE UsersPackages(t, listDir(TopNames, t.kind))

\* listPackagesFromSource(sourceName) is called on the directory
ListPackagesCall ==
    /\ ~listed.called
    /\ listed' = [called |-> TRUE, out |-> listPackagesInDir(tree)]
    /\ UNCHANGED <<tree, globVars, storeVars, resolveVars, mirrorVars, sourceVars,
                   fallbackVars, headVars, mTried, indexVars>>

(***************************************************************************)
(* Sources: RegistryConfig.sources, SourceManager, the Registry's calls    *)
(***************************************************************************)
\* a name that is not given: undefined, null and "" are alike to the code,
\* which tests names for truthiness only
NoName == ""

SourceNames == {"a", "b", "upstream"}

\* MirrorSource.priority is optional: <<>> when the source declares none
Priorities(name) ==
    IF name = "a" THEN {<<>>, <<50>>}
    ELSE IF name = "b" THEN {<<50>>, <<200>>}
    ELSE {<<>>, <<200>>}

\* url and index_url of the configured sources, and of the upstream section
\* as DEFAULT_CONFIG has them
MirrorUrl == "https://mirror.test"
MirrorIndexUrl == "https://mirror.test/index"
UpstreamUrl == "https://mooncakes.io"
UpstreamIndexUrl == "https://mooncakes.io/git/index"

\* the legacy upstream section of a configuration
Upstream(enabled) == [enabled |-> enabled, url |-> UpstreamUrl, index_url |-> UpstreamIndexUrl]

\* the sources a caller hands to addSource
SourcePool ==
    {[name |-> n, enabled |-> e, priority |-> p, index_type |-> "git",
      url |-> MirrorUrl, index_url |-> MirrorIndexUrl] :
        n \in SourceNames, e \in BOOLEAN, p \in UNION {Priorities(m) : m \in SourceNames}}

\* Map.has(name)
MapHas(m, name) == \E i \in 1..Len(m) : m[i].name = name

\* Map.set(source.name, source): a new key goes last, a known key keeps its place
MapSet(m, source) ==
    IF MapHas(m, source.name)
    THEN [i \in 1..Len(m) |-> IF m[i].name = source.name THEN source ELSE m[i]]
    ELSE Append(m, source)

RECURSIVE MapSetAll(_, _)
MapSetAll(m, sources) ==
    IF sources = <<>> THEN m ELSE MapSetAll(MapSet(m, Head(sources)), Tail(sources))

\* Map.get(name) ?? null: <<>> is null, <<source>> the source found
MapGet(m, name) == SelectSeq(m, LAMBDA s : s.name = name)

\* a legacy source whose url and index_url are taken from each other's field
LegacySourceMutant(upstream) ==
    [name |-> "upstream", enabled |-> upstream.enabled, priority |-> <<0>>,
     index_type |-> "git", url |-> upstream.index_url, index_url |-> upstream.url]

\* the source built from the legacy `upstream` section
LegacySource(upstream) ==
    [name |-> "upstream", enabled |-> upstream.enabled, priority |-> <<0>>,
     index_type |-> "git", url |-> upstream.url, index_url |-> upstream.index_url]

\* a loadSources that takes config.default_source without looking it up
loadSourcesMutant(cfg) ==
    LET legacy == cfg.upstream # <<>> /\ cfg.sources = <<>>
        table == MapSetAll(IF legacy THEN <<LegacySource(cfg.upstream[1])>> ELSE <<>>,
                           cfg.sources)
    IN  [sources |-> table,
         defaultSourceName |->
             IF cfg.sources # <<>>
             THEN IF cfg.default_source # NoName
                  THEN cfg.default_source
                  ELSE cfg.sources[1].name
             ELSE IF legacy THEN "upstream" ELSE NoName]

\* new SourceManager(config): the table and the default name after loadSources;
\* config.upstream is <<>> when the section is missing, and a missing
\* config.sources is the empty list (the code treats the two alike)
loadSources(cfg) ==
    LET legacy == cfg.upstream # <<>> /\ cfg.sources = <<>>
        table == MapSetAll(IF legacy THEN <<LegacySource(cfg.upstream[1])>> ELSE <<>>,
                           cfg.sources)
    IN  [sources |-> table,
         defaultSourceName |->
             IF cfg.sources # <<>>
             THEN IF cfg.default_source # NoName /\ MapHas(table, cfg.default_source)
                  THEN cfg.default_source
                  ELSE cfg.sources[1].name
             ELSE IF legacy THEN "upstream" ELSE NoName]

getDefaultSource(sm) ==
    IF sm.defaultSourceName = NoName THEN <<>> ELSE MapGet(sm.sources, sm.defaultSourceName)

\* a lookup that falls back to the default source for a name it does not know
getSourceMutant(sm, name) ==
    IF name # NoName /\ MapHas(sm.sources, name) THEN MapGet(sm.sources, name)
    ELSE getDefaultSource(sm)

getSource(sm, name) ==
    IF name # NoName THEN MapGet(sm.sources, name) ELSE getDefaultSource(sm)

\* a comparator that orders a source without a priority first
PriorityOfMutant(s) == IF s.priority = <<>> THEN 0 ELSE s.priority[1]

\* a.priority ?? 100
PriorityOf(s) == IF s.priority = <<>> THEN 100 ELSE s.priority[1]

\* Array.prototype.sort is stable: s goes behind every element that the
\* comparator does not put after it
RECURSIVE InsertByPriority(_, _)
InsertByPriority(sorted, s) ==
    IF sorted = <<>> THEN <<s>>
    ELSE IF PriorityOf(Head(sorted)) - PriorityOf(s) <= 0
         THEN <<Head(sorted)>> \o InsertByPriority(Tail(sorted), s)
         ELSE <<s>> \o sorted

RECURSIVE SortByPriority(_)
SortByPriority(xs) ==
    IF xs = <<>> THEN <<>>
    ELSE InsertByPriority(SortByPriority(SubSeq(xs, 1, Len(xs) - 1)), xs[Len(xs)])

listSources(sm) == sm.sources

\* a listing of the enabled sources that leaves out the sort
listEnabledSourcesMutant(sm) == SelectSeq(listSources(sm), LAMBDA s : s.enabled)

listEnabledSources(sm) == SortByPriority(SelectSeq(listSources(sm), LAMBDA s : s.enabled))

\* sLast.out is what the call handed back: the sources listed or found by a
\* query, the source taken out by removeSource; sLast.wasDefault tells that
\* the source taken out was the source manager's default
NoCall == [op |-> "none", name |-> NoName, ok |-> TRUE, out |-> <<>>, wasDefault |-> FALSE]

sourcesFrame == <<globVars, storeVars, resolveVars, mirrorVars, fallbackVars,
                  headVars, mTried, indexVars, listVars>>

\* an addSource without the check for a source of the same name
AddSourceMutant ==
    /\ \E source \in SourcePool :
        /\ source.priority \in Priorities(source.name)
        /\ Len(config.sources) < 3
        /\ \E cfg \in {[config EXCEPT !.sources = Append(@, source)]} :
                /\ config' = cfg
                /\ sourceManager' = loadSources(cfg)
                /\ sLast' = [op |-> "addSource", name |-> source.name, ok |-> TRUE,
                             out |-> <<>>, wasDefault |-> FALSE]
    /\ UNCHANGED sourcesFrame

\* Registry.addSource(source)
AddSource ==
    /\ \E source \in SourcePool :
        /\ source.priority \in Priorities(source.name)
        /\ IF MapHas(config.sources, source.name)
           THEN /\ sLast' = [op |-> "addSource", name |-> source.name, ok |-> FALSE,
                             out |-> <<>>, wasDefault |-> FALSE]
                /\ UNCHANGED <<config, sourceManager>>
           ELSE \E cfg \in {[config EXCEPT !.sources = Append(@, source)]} :
                /\ config' = cfg
                /\ sourceManager' = loadSources(cfg)
                /\ sLast' = [op |-> "addSource", name |-> source.name, ok |-> TRUE,
                             out |-> <<>>, wasDefault |-> FALSE]
    /\ UNCHANGED sourcesFrame

\* sources.findIndex((s) => s.name === name), for a name that is there
FindIndex(m, name) ==
    CHOOSE i \in 1..Len(m) : m[i].name = name /\ \A j \in 1..(i - 1) : m[j].name # name

\* sources.splice(index, 1)
Splice(m, at) == SubSeq(m, 1, at - 1) \o SubSeq(m, at + 1, Len(m))

\* SourceManager.hasSource(name)
hasSource(sm, name) == MapHas(sm.sources, name)

\* Registry.removeSource(name)
RemoveSource ==
    /\ \E name \in SourceNames :
        IF ~MapHas(config.sources, name)
        THEN /\ sLast' = [op |-> "removeSource", name |-> name, ok |-> FALSE,
                          out |-> <<>>, wasDefault |-> FALSE]
             /\ UNCHANGED <<config, sourceManager>>
        ELSE \E cfg \in {[config EXCEPT
                            !.sources = Splice(@, FindIndex(@, name)),
                            !.default_source = IF @ = name THEN NoName ELSE @]} :
             /\ config' = cfg
             /\ sourceManager' = loadSources(cfg)
             /\ sLast' = [op |-> "removeSource", name |-> name, ok |-> TRUE,
                          out |-> MapGet(config.sources, name),
                          wasDefault |-> sourceManager.defaultSourceName = name]
    /\ UNCHANGED sourcesFrame

\* Registry.setDefaultSource(name): the name is looked up in the source
\* manager and written to the configuration; the source manager is not rebuilt
SetDefaultSource ==
    /\ \E name \in SourceNames :
        IF getSource(sourceManager, name) = <<>>
        THEN /\ sLast' = [op |-> "setDefaultSource", name |-> name, ok |-> FALSE,
                          out |-> <<>>, wasDefault |-> FALSE]
             /\ UNCHANGED config
        ELSE /\ config' = [config EXCEPT !.default_source = name]
             /\ sLast' = [op |-> "setDefaultSource", name |-> name, ok |-> TRUE,
                          out |-> <<>>, wasDefault |-> FALSE]
    /\ UNCHANGED <<sourceManager, sourcesFrame>>

\* Registry.setSourceEnabled(name, enabled)
SetSourceEnabled ==
    /\ \E name \in SourceNames, enabled \in BOOLEAN :
        IF ~MapHas(config.sources, name)
        THEN /\ sLast' = [op |-> "setSourceEnabled", name |-> name, ok |-> FALSE,
                          out |-> <<>>, wasDefault |-> FALSE]
             /\ UNCHANGED <<config, sourceManager>>
        ELSE \E cfg \in {[config EXCEPT !.sources =
                            [i \in 1..Len(config.sources) |->
                                IF config.sources[i].name = name
                                THEN [config.sources[i] EXCEPT !.enabled = enabled]
                                ELSE config.sources[i]]]} :
             /\ config' = cfg
             /\ sourceManager' = loadSources(cfg)
             /\ sLast' = [op |-> "setSourceEnabled", name |-> name, ok |-> TRUE,
                          out |-> <<>>, wasDefault |-> FALSE]
    /\ UNCHANGED sourcesFrame

\* sourceManager.listEnabledSources()
ListEnabledCall ==
    /\ sLast' = [op |-> "listEnabledSources", name |-> NoName, ok |-> TRUE,
                 out |-> listEnabledSources(sourceManager), wasDefault |-> FALSE]
    /\ UNCHANGED <<config, sourceManager, sourcesFrame>>

\* sourceManager.getSource(name), the name given or omitted
GetSourceCall ==
    /\ \E name \in SourceNames \cup {NoName} :
        sLast' = [op |-> "getSource", name |-> name, ok |-> TRUE,
                  out |-> getSource(sourceManager, name), wasDefault |-> FALSE]
    /\ UNCHANGED <<config, sourceManager, sourcesFrame>>

(***************************************************************************)
(* PackageStore.downloadPackageWithFallback, as the specification gives it *)
(* (the function is not in the sources at hand): the cache is looked at    *)
(* first, then the enabled sources are gone through, one attempt each      *)
(***************************************************************************)
SourceNamesOf(sources) == [i \in 1..Len(sources) |-> sources[i].name]

\* an iteration over the enabled sources as they are declared
FallbackOrderMutant(sm) == SourceNamesOf(SelectSeq(listSources(sm), LAMBDA s : s.enabled))

\* iterates SourceManager.listEnabledSources() in priority order
FallbackOrder(sm) == SourceNamesOf(listEnabledSources(sm))

fallbackFrame == <<globVars, storeVars, resolveVars, mirrorVars, sourceVars,
                   headVars, mTried, indexVars, listVars>>

\* the call and its look at the cache: fb.cached tells whether the cache holds
\* a valid file, fb.reach the sources a download succeeds from
FallbackCall ==
    /\ fb.pc = "idle"
    /\ \E cached \in BOOLEAN, reach \in SUBSET {"a", "b"} :
        fb' = [pc |-> IF cached THEN "returned" ELSE "trying",
               queue |-> IF cached THEN <<>> ELSE FallbackOrder(sourceManager),
               tried |-> <<>>, reach |-> reach, cached |-> cached]
    /\ UNCHANGED fallbackFrame

\* downloadPackage is attempted against the next source: the first success
\* wins, a failure is logged and swallowed
FallbackAttempt ==
    /\ fb.pc = "trying"
    /\ fb.queue # <<>>
    /\ fb' = [fb EXCEPT !.tried = Append(@, Head(fb.queue)),
                        !.queue = Tail(@),
                        !.pc = IF Head(fb.queue) \in fb.reach THEN "returned" ELSE "trying"]
    /\ UNCHANGED fallbackFrame

\* all sources are exhausted: the "not found in any source" error is raised
FallbackExhausted ==
    /\ fb.pc = "trying"
    /\ fb.queue = <<>>
    /\ fb' = [fb EXCEPT !.pc = "raised"]
    /\ UNCHANGED fallbackFrame

(***************************************************************************)
(* Registry.mirror                                                         *)
(***************************************************************************)
mirrorFrame == <<globVars, resolveVars, calls, initFiles, allChecked,
                 sourceVars, fallbackVars, headVars, indexVars, listVars>>

\* the index directory itself, as a path under it
IndexRoot == <<>>

\* IndexManager.getSourceIndexPath(sourceName)
getSourceIndexPath(sourceName) ==
    IF sourceName = NoName THEN IndexRoot ELSE <<"sources", sourceName>>

\* a check of the selected source that lets a disabled source through
MirrorSourceErrorMutant(source) == source = <<>>

\* `if (!source) throw ...` and `if (!source.enabled) throw ...`
MirrorSourceError(source) == source = <<>> \/ ~source[1].enabled

\* mirror(options) up to the first await: the source is looked up and checked
MirrorStart ==
    /\ mpc = "start"
    /\ \E source \in {getSource(sourceManager, mSource)} :
        IF MirrorSourceError(source)
        THEN /\ mpc' = "error"
             /\ UNCHANGED mSel
        ELSE /\ mpc' = "sync"
             /\ mSel' = source
    /\ UNCHANGED <<toDownload, curPkg, verQueue, downloaded, failed, mRaised, mTried,
                   files, dirs, dl, globVars, resolveVars, calls, initFiles, allChecked,
                   sourceVars, fallbackVars, mSource, idxExists, remote, syncRes, indexVars, listVars>>

\* await indexManager.syncSourceIndex(source.name): the source is looked up
\* again; a git index that exists is pulled (a failed pull is only warned
\* about), one that does not is cloned and the result of the clone is dropped;
\* an http index only has its directory made
MirrorSync ==
    /\ mpc = "sync"
    /\ IF getSource(sourceManager, mSel[1].name) = <<>>
       THEN /\ mpc' = "error"
            /\ UNCHANGED <<index, idxExists, syncRes, mIndexPath>>
       ELSE /\ mpc' = "resolve"
            /\ mIndexPath' = getSourceIndexPath(mSel[1].name)
            /\ IF mSel[1].index_type = "git"
               THEN IF idxExists
                    THEN /\ syncRes' = "pull"
                         /\ index' \in {index, remote}
                         /\ UNCHANGED idxExists
                    ELSE \/ /\ syncRes' = "cloned"
                            /\ index' = remote
                            /\ idxExists' = TRUE
                         \/ /\ syncRes' = "clone-failed"
                            /\ UNCHANGED <<index, idxExists>>
               ELSE /\ syncRes' = "http"
                    /\ idxExists' = TRUE
                    /\ UNCHANGED index
    /\ UNCHANGED <<toDownload, curPkg, verQueue, downloaded, failed, mRaised, mTried,
                   files, dirs, dl, globVars, opts, rpc, res, toProcess, processed, visits,
                   calls, initFiles, allChecked, sourceVars, fallbackVars,
                   mSource, mSel, remote, indexFiles, wr, wr2, written, listVars>>

\* await dependencyResolver.resolve(options, source.name) is called
MirrorResolve ==
    /\ mpc = "resolve"
    /\ rpc = "uncalled"
    /\ rpc' = "idle"
    /\ mpc' = "resolving"
    /\ UNCHANGED <<toDownload, curPkg, verQueue, downloaded, failed, mRaised, mTried,
                   files, dirs, dl, globVars, index, opts, res, toProcess, processed, visits,
                   calls, initFiles, allChecked, sourceVars, fallbackVars, headVars, indexVars, listVars>>

\* Array.from(resolution.packages).filter((p) => !resolution.cached.has(p))
ToDownloadOf(packages, cached) == SelectSeq(packages, LAMBDA p : p \notin cached)

\* the resolution is back: toDownload is computed, the counters start at 0
MirrorPlan ==
    /\ mpc = "resolving"
    /\ rpc = "done"
    /\ toDownload' = ToDownloadOf(res.packages, res.cached)
    /\ mpc' = "loop"
    /\ UNCHANGED <<curPkg, verQueue, downloaded, failed, mRaised, mTried,
                   files, dirs, dl, mirrorFrame>>

\* `for (const pkgName of toDownload)`: the package's metadata is read
MirrorNextPackage ==
    /\ mpc = "loop"
    /\ toDownload # <<>>
    /\ LET pkgName == Head(toDownload)
       IN  /\ toDownload' = Tail(toDownload)
           /\ IF ~parsePackageId(pkgName)
              THEN UNCHANGED <<mpc, curPkg, verQueue, failed>>
              ELSE IF getPackageFromSource(pkgName) = <<>>
                   THEN /\ failed' = failed + 1
                        /\ UNCHANGED <<mpc, curPkg, verQueue>>
                   ELSE /\ mpc' = "versions"
                        /\ curPkg' = pkgName
                        /\ verQueue' = getPackageFromSource(pkgName)[1]
                        /\ UNCHANGED failed
    /\ UNCHANGED <<downloaded, mRaised, mTried, files, dirs, dl, mirrorFrame>>

\* a version loop that calls downloadPackage without awaiting it
MirrorNextVersionMutant ==
    /\ mpc = "versions"
    /\ verQueue # <<>>
    /\ LET version == Head(verQueue)
       IN  /\ verQueue' = Tail(verQueue)
           /\ IF version.yanked
              THEN UNCHANGED <<dl, mTried>>
              ELSE /\ \E p \in DlProcs :
                        /\ dl[p].pc = "idle"
                        /\ dl' = [dl EXCEPT ![p] = BeginDownload(<<curPkg, version.version>>,
                                                                 version.checksum)]
                   /\ mTried' = <<mSel[1].name>>
    /\ UNCHANGED <<mpc, toDownload, curPkg, downloaded, failed, mRaised, files, dirs,
                   mirrorFrame>>

\* `for (const version of metadata.versions)`: a yanked version is passed over,
\* any other is handed to downloadPackage with its checksum and source.name
MirrorNextVersion ==
    /\ mpc = "versions"
    /\ verQueue # <<>>
    /\ LET version == Head(verQueue)
       IN  /\ verQueue' = Tail(verQueue)
           /\ IF version.yanked
              THEN UNCHANGED <<mpc, dl, mTried>>
              ELSE /\ dl' = [dl EXCEPT ![1] = BeginDownload(<<curPkg, version.version>>,
                                                            version.checksum)]
                   /\ mTried' = <<mSel[1].name>>
                   /\ mpc' = "awaiting"
    /\ UNCHANGED <<toDownload, curPkg, downloaded, failed, mRaised, files, dirs, mirrorFrame>>

\* a catch block that lets the error of a download leave mirror
MirrorAwaitMutant ==
    /\ mpc = "awaiting"
    /\ dl[1].pc \in {"returned", "raised"}
    /\ IF dl[1].pc = "returned"
       THEN /\ downloaded' = downloaded + 1
            /\ mpc' = "versions"
            /\ UNCHANGED <<failed, mRaised>>
       ELSE /\ failed' = failed + 1
            /\ mRaised' = mRaised + 1
            /\ mpc' = "error"
            /\ UNCHANGED downloaded
    /\ dl' = [dl EXCEPT ![1] = IdleCall]
    /\ UNCHANGED <<toDownload, curPkg, verQueue, mTried, files, dirs, mirrorFrame>>

\* the awaited downloadPackage settles: downloaded++ or (catch) failed++
MirrorAwait ==
    /\ mpc = "awaiting"
    /\ dl[1].pc \in {"returned", "raised"}
    /\ IF dl[1].pc = "returned"
       THEN /\ downloaded' = downloaded + 1
            /\ UNCHANGED <<failed, mRaised>>
       ELSE /\ failed' = failed + 1
            /\ mRaised' = mRaised + 1
            /\ UNCHANGED downloaded
    /\ dl' = [dl EXCEPT ![1] = IdleCall]
    /\ mpc' = "versions"
    /\ UNCHANGED <<toDownload, curPkg, verQueue, mTried, files, dirs, mirrorFrame>>

\* the version loop of the current package ends
MirrorPackageDone ==
    /\ mpc = "versions"
    /\ verQueue = <<>>
    /\ mpc' = "loop"
    /\ UNCHANGED <<toDownload, curPkg, verQueue, downloaded, failed, mRaised, mTried,
                   files, dirs, dl, mirrorFrame>>

\* the package loop ends: the summary is logged and mirror returns
MirrorEnd ==
    /\ mpc = "loop"
    /\ toDownload = <<>>
    /\ mpc' = "done"
    /\ UNCHANGED <<toDownload, curPkg, verQueue, downloaded, failed, mRaised, mTried,
                   files, dirs, dl, mirrorFrame>>

(***************************************************************************)
(* Specification of matchGlob as a called function                         *)
(***************************************************************************)
\* no directory synced yet
NoPath == <<"none">>

WriteIdle ==
    /\ mIndexPath = NoPath
    /\ indexFiles = <<>>
    /\ wr = NoWrite
    /\ wr2 = NoWrite
    /\ written = [p \in PkgPaths |-> <<>>]

IndexIdle ==
    /\ WriteIdle
    /\ tree = NoTree
    /\ listed = NotListed

StoreIdle ==
    /\ files = <<>>
    /\ dirs = {}
    /\ dl = [p \in DlProcs |-> IdleCall]
    /\ calls = 0
    /\ initFiles = <<>>
    /\ allChecked = TRUE

GlobIdle ==
    /\ gStr = <<>>
    /\ gPattern = <<>>
    /\ gCalled = FALSE
    /\ gOut = FALSE

AbsentEntry == [state |-> "absent", versions |-> <<>>]

ResolveIdle ==
    /\ rpc = "idle"
    /\ res = EmptyResult
    /\ toProcess = <<>>
    /\ processed = {}
    /\ visits = [n \in DepNames |-> 0]

MirrorIdle ==
    /\ mpc = "start"
    /\ toDownload = <<>>
    /\ curPkg = <<>>
    /\ verQueue = <<>>
    /\ downloaded = 0
    /\ failed = 0
    /\ mRaised = 0

\* DEFAULT_CONFIG: the legacy upstream section, enabled, and no sources
DefaultConfig ==
    [sources |-> <<>>, default_source |-> NoName, upstream |-> <<Upstream(TRUE)>>]

SourcesIdle ==
    /\ config = DefaultConfig
    /\ sourceManager = loadSources(DefaultConfig)
    /\ sLast = NoCall

IdleFallback ==
    [pc |-> "idle", queue |-> <<>>, tried |-> <<>>, reach |-> {}, cached |-> FALSE]

FallbackIdle == fb = IdleFallback

\* no mirror run: the index read is the one on disk
HeadIdle ==
    /\ mSource = NoName
    /\ mSel = <<>>
    /\ idxExists = TRUE
    /\ remote = index
    /\ syncRes = "none"
    /\ mTried = <<>>
    /\ IndexIdle

NoMirror ==
    /\ index = [id \in IndexIds |-> AbsentEntry]
    /\ opts = [patterns |-> <<>>, full |-> FALSE, strict |-> FALSE, quiet |-> FALSE]
    /\ ResolveIdle
    /\ MirrorIdle

\* the calls the specification gives as examples: <<str, pattern>>
GlobExamples ==
    { <<(<<"a", "/", "b">>), (<<"a", "/", "*">>)>>,
      <<(<<"a", "/", "b", "c", "/", "d">>), (<<"a", "/", "*">>)>> }

InitGlob ==
    /\ \/ /\ gStr \in SeqsUpTo(GlobChars, MaxStrLen)
          /\ gPattern \in SeqsUpTo(GlobChars, MaxPatLen)
       \/ \E e \in GlobExamples : gStr = e[1] /\ gPattern = e[2]
    /\ gCalled = FALSE
    /\ gOut = FALSE
    /\ StoreIdle
    /\ NoMirror
    /\ SourcesIdle
    /\ FallbackIdle
    /\ HeadIdle

MatchGlobCall ==
    /\ ~gCalled
    /\ gCalled' = TRUE
    /\ gOut' = matchGlob(gStr, gPattern)
    /\ UNCHANGED <<gStr, gPattern>>
    /\ UNCHANGED <<storeVars, resolveVars, mirrorVars, sourceVars, fallbackVars,
                   headVars, mTried, indexVars, listVars>>

NextGlob == MatchGlobCall

SpecGlob == InitGlob /\ [][NextGlob]_vars

(***************************************************************************)
(* Specification of downloadPackage called directly on one artifact        *)
(***************************************************************************)
DlArt == <<IdAX, V10>>

\* the cache before the first call: the artifact absent (its directory there
\* or not) or present with any content
InitDl ==
    /\ GlobIdle
    /\ NoMirror
    /\ \/ files = <<>> /\ dirs \in {{}, {IdAX}}
       \/ \E c \in Contents : files = (DlArt :> c) /\ dirs = {IdAX}
    /\ initFiles = files
    /\ dl = [p \in DlProcs |-> IdleCall]
    /\ calls = 0
    /\ allChecked = TRUE
    /\ SourcesIdle
    /\ FallbackIdle
    /\ HeadIdle

\* a caller invokes downloadPackage(username, name, version, expectedChecksum?)
DirectCall ==
    /\ ~Executing(1)
    /\ calls < MaxCalls
    /\ \E e \in ExpectedPool :
         /\ dl' = [dl EXCEPT ![1] = BeginDownload(DlArt, e)]
         /\ allChecked' = (allChecked /\ Truthy(e))
    /\ calls' = calls + 1
    /\ UNCHANGED <<files, dirs, initFiles, globVars, resolveVars, mirrorVars,
                   sourceVars, fallbackVars, headVars, mTried, indexVars, listVars>>

NextDl ==
    \/ DirectCall
    \/ DlVerifyCached
    \/ DlRemoveStale
    \/ DlFetchResponse
    \/ DlBody
    \/ DlEnsureDir
    \/ DlWriteOpen
    \/ DlWriteDone
    \/ DlVerifyWritten
    \/ DlRemoveBad
    \/ Interrupt

SpecDl == InitDl /\ [][NextDl]_vars

(***************************************************************************)
(* Specification of two downloadPackage calls on one artifact with one     *)
(* expected checksum, in flight together (two mirror runs of one process,  *)
(* or of two processes, over one data directory)                           *)
(***************************************************************************)
InitDlRace ==
    /\ GlobIdle
    /\ StoreIdle
    /\ NoMirror
    /\ SourcesIdle
    /\ FallbackIdle
    /\ HeadIdle

\* one of the two callers invokes downloadPackage; the second passes the
\* checksum the first passed
ConcurrentCall ==
    /\ \E p \in DlProcs :
         /\ dl[p].pc = "idle"
         /\ \E e \in {x \in ExpectedPool : Truthy(x)} :
              /\ \A q \in DlProcs : dl[q].pc # "idle" => dl[q].expected = e
              /\ dl' = [dl EXCEPT ![p] = BeginDownload(DlArt, e)]
    /\ calls' = calls + 1
    /\ UNCHANGED <<files, dirs, initFiles, allChecked, globVars, resolveVars, mirrorVars,
                   sourceVars, fallbackVars, headVars, mTried, indexVars, listVars>>

NextDlRace ==
    \/ ConcurrentCall
    \/ DlVerifyCached
    \/ DlRemoveStale
    \/ DlFetchResponse
    \/ DlBody
    \/ DlEnsureDir
    \/ DlWriteOpen
    \/ DlWriteDone
    \/ DlVerifyWritten
    \/ DlRemoveBad

SpecDlRace == InitDlRace /\ [][NextDlRace]_vars

(***************************************************************************)
(* Specification of resolve called on an index                             *)
(***************************************************************************)
MaxLines == 2       \* version lines in the whole index

GoodDigest == <<"a", "1">>

\* the deps field of a line, as its keys in order: none, a listed package
\* (itself or the other one), or two names the index does not list
DepLists == {<<>>, <<IdAX>>, <<IdBZ>>, <<IdAY, IdQ>>}

\* the checksum field of a line: the digest of body 1, or the empty string
ChecksumPool == {GoodDigest, <<>>}

\* the version field of the i-th line of an index file: a new version, or
\* (on the second line) the first version listed again
VersionNames == <<V10, V20, <<"2", ".", "1">>, <<"3", ".", "0">>>>
LineVersions(i) ==
    IF i = 1 THEN {V10} ELSE IF i = 2 THEN {VersionNames[i], V10} ELSE {VersionNames[i]}

\* the lines an index file can hold at the i-th place; a line after the
\* second has a dependency, listed (a/x) or not (a/y and q)
AllLineRecs(i) ==
    {r \in [version : LineVersions(i), checksum : ChecksumPool, deps : DepLists,
            yanked : BOOLEAN] :
        i > 2 => r.deps \in {<<IdAX>>, <<IdAY, IdQ>>}}

\* resolve does not read the checksum field: one value is enough
LineRecs(i) == {r \in AllLineRecs(i) : r.checksum = GoodDigest}

RECURSIVE VersionLists(_)
VersionLists(n) ==
    IF n = 0 THEN {<<>>}
    ELSE VersionLists(n - 1) \cup
         {Append(q, r) : q \in {t \in VersionLists(n - 1) : Len(t) = n - 1}, r \in LineRecs(n)}

Entries(n) ==
    {AbsentEntry, [state |-> "corrupt", versions |-> <<>>]}
        \cup {[state |-> "ok", versions |-> vl] : vl \in VersionLists(n)}

TotalLines(ix) == Len(ix[IdAX].versions) + Len(ix[IdBZ].versions)

Indexes(n) == {ix \in [IndexIds -> Entries(n)] : TotalLines(ix) <= n}

\* the patterns argument: none (as with --full), one pattern, or two
PatternLists ==
    { <<>>,
      <<(<<"*">>)>>,
      <<(<<"a", "/", "*">>)>>,
      <<(<<"b", "/", "*">>)>>,
      <<(<<"a", "/", "*">>), (<<"?", "/", "z">>)>> }

OptionSets ==
    [patterns : PatternLists, full : BOOLEAN, strict : BOOLEAN, quiet : {FALSE}]

\* the cache resolve finds: empty, or holding version 1.0 of a/x
ResolveCaches == {<<>>, (<<IdAX, V10>> :> 1)}

InitResolve ==
    /\ GlobIdle
    /\ files \in ResolveCaches
    /\ dirs = {a[1] : a \in DOMAIN files}
    /\ initFiles = files
    /\ dl = [p \in DlProcs |-> IdleCall]
    /\ calls = 0
    /\ allChecked = TRUE
    /\ index \in Indexes(MaxLines)
    /\ opts \in OptionSets
    /\ ResolveIdle
    /\ MirrorIdle
    /\ SourcesIdle
    /\ FallbackIdle
    /\ HeadIdle

NextResolve ==
    \/ ResolveBegin
    \/ ClosureStep
    \/ ClosureEnd
    \/ AnnotateCached

SpecResolve == InitResolve /\ [][NextResolve]_vars

\* The same calls under the scheduling the event loop gives: resolve is one
\* async function that is run on once called.  The call itself is the first
\* step, so that every behaviour starts in the one state before it.
InitResolveFair ==
    /\ GlobIdle
    /\ StoreIdle
    /\ index = [id \in IndexIds |-> AbsentEntry]
    /\ opts = [patterns |-> <<>>, full |-> FALSE, strict |-> FALSE, quiet |-> FALSE]
    /\ rpc = "uncalled"
    /\ res = EmptyResult
    /\ toProcess = <<>>
    /\ processed = {}
    /\ visits = [n \in DepNames |-> 0]
    /\ MirrorIdle
    /\ SourcesIdle
    /\ FallbackIdle
    /\ HeadIdle

\* the indexes whose files all parse and list no yanked version
FairIndexes ==
    {ix \in Indexes(MaxLines) :
        \A id \in IndexIds :
            /\ ix[id].state = "ok"
            /\ \A i \in 1..Len(ix[id].versions) : ~ix[id].versions[i].yanked}

ResolveCall ==
    /\ rpc = "uncalled"
    /\ index' \in FairIndexes
    /\ opts' \in {o \in OptionSets : ~o.full}
    /\ rpc' = "idle"
    /\ UNCHANGED <<res, toProcess, processed, visits, globVars, storeVars, mirrorVars,
                   sourceVars, fallbackVars, headVars, mTried, indexVars, listVars>>

NextResolveFair ==
    \/ ResolveCall
    \/ ResolveBegin
    \/ ClosureStep
    \/ ClosureEnd
    \/ AnnotateCached

SpecResolveFair ==
    InitResolveFair /\ [][NextResolveFair]_vars /\ WF_vars(NextResolveFair)

(***************************************************************************)
(* Specification of a mirror run over an index and a cache                 *)
(***************************************************************************)
\* in a mirror run a deps map is empty or names a/x
MirrorLineRecs(i) == {r \in AllLineRecs(i) : SeqToSet(r.deps) \subseteq {IdAX}}

RECURSIVE MirrorVersionLists(_)
MirrorVersionLists(n) ==
    IF n = 0 THEN {<<>>}
    ELSE MirrorVersionLists(n - 1) \cup
         {Append(q, r) : q \in {t \in MirrorVersionLists(n - 1) : Len(t) = n - 1},
                         r \in MirrorLineRecs(n)}

MirrorEntries(n) ==
    {AbsentEntry, [state |-> "corrupt", versions |-> <<>>]}
        \cup {[state |-> "ok", versions |-> vl] : vl \in MirrorVersionLists(n)}

MirrorIndexes(n) == {ix \in [IndexIds -> MirrorEntries(n)] : TotalLines(ix) <= n}

MirrorOptionSets ==
    [patterns : {<<(<<"*">>)>>}, full : {FALSE}, strict : BOOLEAN, quiet : {FALSE}]

\* the cache before the run: empty, or holding version 1.0 of a/x, intact
\* (body 1) or corrupt (body 2)
InitialCaches ==
    {<<>>} \cup {(<<IdAX, V10>> :> c) : c \in Bodies}

\* no mirror call has been made and nothing else is running
MirrorUncalled ==
    /\ GlobIdle
    /\ FallbackIdle
    /\ rpc = "uncalled"
    /\ res = EmptyResult
    /\ toProcess = <<>>
    /\ processed = {}
    /\ visits = [n \in DepNames |-> 0]
    /\ MirrorIdle
    /\ mSel = <<>>
    /\ syncRes = "none"
    /\ mTried = <<>>
    /\ IndexIdle
    /\ dl = [p \in DlProcs |-> IdleCall]
    /\ calls = 0
    /\ allChecked = TRUE
    /\ sLast = NoCall

\* mirror is called without a source option on a registry with the default
\* configuration, whose index is cloned and up to date
InitMirror ==
    /\ MirrorUncalled
    /\ index \in MirrorIndexes(MaxLines)
    /\ opts \in MirrorOptionSets
    /\ files \in InitialCaches
    /\ dirs = {a[1] : a \in DOMAIN files}
    /\ initFiles = files
    /\ config = DefaultConfig
    /\ sourceManager = loadSources(config)
    /\ mSource = NoName
    /\ idxExists = TRUE
    /\ remote = index

NextMirror ==
    \/ MirrorStart
    \/ MirrorSync
    \/ MirrorResolve
    \/ ResolveBegin
    \/ ClosureStep
    \/ ClosureEnd
    \/ AnnotateCached
    \/ MirrorPlan
    \/ MirrorNextPackage
    \/ MirrorNextVersion
    \/ MirrorAwait
    \/ MirrorPackageDone
    \/ MirrorEnd
    \/ DlVerifyCached
    \/ DlRemoveStale
    \/ DlFetchResponse
    \/ DlBody
    \/ DlEnsureDir
    \/ DlWriteOpen
    \/ DlWriteDone
    \/ DlVerifyWritten
    \/ DlRemoveBad

SpecMirror == InitMirror /\ [][NextMirror]_vars

(***************************************************************************)
(* Specification of mirror runs over configured sources                    *)
(***************************************************************************)
SrcA(enabled) ==
    [name |-> "a", enabled |-> enabled, priority |-> <<50>>, index_type |-> "git",
     url |-> MirrorUrl, index_url |-> MirrorIndexUrl]
SrcB(enabled, indexType) ==
    [name |-> "b", enabled |-> enabled, priority |-> <<>>, index_type |-> indexType,
     url |-> MirrorUrl, index_url |-> MirrorIndexUrl]

\* the configurations mirror runs on: the legacy upstream section alone, or
\* the two sources a and b
MirrorConfigs ==
    [sources : {<<>>}, default_source : {NoName},
     upstream : {<<>>, <<Upstream(TRUE)>>, <<Upstream(FALSE)>>}]
        \cup [sources : {<<SrcA(ea), SrcB(eb, t)>> :
                            ea \in BOOLEAN, eb \in BOOLEAN, t \in {"git", "http"}},
              default_source : {NoName, "b"},
              upstream : {<<>>}]

\* the source's index repository holds a/x alone, in at most two lines
SourceIndexes == {ix \in MirrorIndexes(2) : ix[IdBZ] = AbsentEntry}

InitMirrorSources ==
    /\ MirrorUncalled
    /\ config \in MirrorConfigs
    /\ sourceManager = loadSources(config)
    /\ mSource \in SourceNames \cup {NoName}
    /\ remote \in SourceIndexes
    /\ idxExists \in BOOLEAN
    /\ index = IF idxExists THEN remote ELSE [id \in IndexIds |-> AbsentEntry]
    /\ opts \in {o \in MirrorOptionSets : ~o.strict}
    /\ files \in InitialCaches
    /\ dirs = {a[1] : a \in DOMAIN files}
    /\ initFiles = files

SpecMirrorSources == InitMirrorSources /\ [][NextMirror]_vars

(***************************************************************************)
(* Specification of listPackagesFromSource called on a directory           *)
(***************************************************************************)
InitListing ==
    /\ GlobIdle
    /\ StoreIdle
    /\ NoMirror
    /\ SourcesIdle
    /\ FallbackIdle
    /\ mSource = NoName
    /\ mSel = <<>>
    /\ idxExists = TRUE
    /\ remote = index
    /\ syncRes = "none"
    /\ mTried = <<>>
    /\ WriteIdle
    /\ tree \in Trees
    /\ listed = NotListed

NextListing == ListPackagesCall

SpecListing == InitListing /\ [][NextListing]_vars

(***************************************************************************)
(* Specification of the resolutions whose worklist is drained in any order *)
(***************************************************************************)
NextResolveAnyOrder ==
    \/ ResolveBegin
    \/ ClosureStepAnyOrder
    \/ ClosureEnd
    \/ AnnotateCached

SpecResolveAnyOrder == InitResolve /\ [][NextResolveAnyOrder]_vars

(***************************************************************************)
(* Specification of a resolve over one package whose versions are written  *)
(* in several ways: parts missing, not numeric, of two digits              *)
(***************************************************************************)
MaxVersions == 3

VersionPool ==
    {V10, <<"1", ".", "a">>, <<"2">>, <<"1", "0">>, <<"1", ".", "2", "a">>}

\* a line of a/x: its dependency matches the pattern (a/y) or does not (q);
\* one dependency is enough on a yanked line; a line after the third is not
\* yanked and has the least or the greatest version
LatestLineRecs ==
    {r \in [version : VersionPool, checksum : {GoodDigest}, deps : {<<IdAY>>, <<IdQ>>},
            yanked : BOOLEAN] : r.yanked => r.deps = <<IdQ>>}

RECURSIVE LatestVersionLists(_)
LatestVersionLists(n) ==
    IF n = 0 THEN {<<>>}
    ELSE LatestVersionLists(n - 1) \cup
         {Append(q, r) : q \in {t \in LatestVersionLists(n - 1) : Len(t) = n - 1},
                         r \in {x \in LatestLineRecs :
                                   n > 3 => ~x.yanked /\ x.version \in {V10, <<"1", "0">>}}}

InitLatest ==
    /\ GlobIdle
    /\ StoreIdle
    /\ \E vl \in LatestVersionLists(MaxVersions) :
           index = [id \in IndexIds |-> IF id = IdAX THEN [state |-> "ok", versions |-> vl]
                                        ELSE AbsentEntry]
    /\ opts = [patterns |-> <<(<<"a", "/", "*">>)>>, full |-> FALSE, strict |-> FALSE,
               quiet |-> FALSE]
    /\ ResolveIdle
    /\ MirrorIdle
    /\ SourcesIdle
    /\ FallbackIdle
    /\ HeadIdle

SpecLatest == InitLatest /\ [][NextResolve]_vars

(***************************************************************************)
(* Specification of writePackageEntry called on a local index              *)
(***************************************************************************)
InitIndexWrite ==
    /\ GlobIdle
    /\ StoreIdle
    /\ NoMirror
    /\ SourcesIdle
    /\ FallbackIdle
    /\ HeadIdle

NextIndexWrite ==
    \/ WritePackageEntry
    \/ AppendRead
    \/ AppendWrite

SpecIndexWrite == InitIndexWrite /\ [][NextIndexWrite]_vars

(***************************************************************************)
(* Specification of writePackageEntry calls that overlap                   *)
(***************************************************************************)
NextIndexWriteRace ==
    \/ WritePackageEntry
    \/ AppendRead
    \/ AppendWrite
    \/ OverlapCall
    \/ OverlapRead
    \/ OverlapWrite

SpecIndexWriteRace == InitIndexWrite /\ [][NextIndexWriteRace]_vars

(***************************************************************************)
(* Specification of a Registry whose sources are managed                   *)
(***************************************************************************)
\* the configuration the Registry is constructed with: no sources yet, with
\* or without the legacy upstream section, default_source as the file has it
InitialConfigs ==
    [sources : {<<>>}, default_source : {NoName} \cup SourceNames,
     upstream : {<<>>, <<Upstream(TRUE)>>, <<Upstream(FALSE)>>}]

InitSources ==
    /\ GlobIdle
    /\ StoreIdle
    /\ NoMirror
    /\ FallbackIdle
    /\ HeadIdle
    /\ config \in InitialConfigs
    /\ sourceManager = loadSources(config)
    /\ sLast = NoCall

NextSources ==
    \/ AddSource
    \/ RemoveSource
    \/ SetDefaultSource
    \/ SetSourceEnabled
    \/ ListEnabledCall
    \/ GetSourceCall

SpecSources == InitSources /\ [][NextSources]_vars

(***************************************************************************)
(* Specification of downloadPackageWithFallback over two sources           *)
(***************************************************************************)
\* the configurations with the sources a and b, declared in either order
FallbackConfigs ==
    [sources : {<<s, t>> : s \in SourcePool, t \in SourcePool}, default_source : {NoName},
     upstream : {<<>>}]

InitFallback ==
    /\ GlobIdle
    /\ StoreIdle
    /\ NoMirror
    /\ HeadIdle
    /\ FallbackIdle
    /\ config \in {c \in FallbackConfigs :
                      /\ {c.sources[1].name, c.sources[2].name} = {"a", "b"}
                      /\ \A i \in 1..2 : c.sources[i].priority \in Priorities(c.sources[i].name)}
    /\ sourceManager = loadSources(config)
    /\ sLast = NoCall

NextFallback ==
    \/ FallbackCall
    \/ FallbackAttempt
    \/ FallbackExhausted

SpecFallback == InitFallback /\ [][NextFallback]_vars

(***************************************************************************)
(* Properties                                                              *)
(***************************************************************************)

\* the claim's reading of "checksum e is the checksum of content c": the hex
\* digest of c, in either letter case
IsDigestOf(e, c) ==
    /\ Len(e) = Len(Sha256Hex(c))
    /\ \A i \in 1..Len(e) : LowerChar(e[i]) = Sha256Hex(c)[i]

\* an expected checksum was supplied (the empty string counts as none)
ChecksumSupplied(e) == e # Undefined /\ e # <<>>

\* some original pattern denotes the name, in the glob semantics of the spec
PatternDenotes(name) ==
    \E i \in 1..Len(opts.patterns) : GlobDenotes(name, opts.patterns[i])

\* the ids the source index lists
Listed == {id \in IndexIds : index[id].state # "absent"}

\* the packages whose latest non-yanked version the closure can read
Readable(p) == parsePackageId(p) /\ HasMetadata(p) /\ getLatestVersion(Metadata(p)) # <<>>
LatestDeps(p) == SeqToSet(getLatestVersion(Metadata(p))[1].deps)

\* C1: after a mirror run in which no download raised, the archive of every
\* non-yanked version of every resolved package is in the cache, whatever the
\* cache held before the run.
MirrorCachesEveryVersion ==
    (mpc = "done" /\ mRaised = 0) =>
        \A p \in SeqToSet(res.packages) :
            (parsePackageId(p) /\ HasMetadata(p)) =>
                \A i \in 1..Len(Metadata(p)) :
                    ~Metadata(p)[i].yanked => hasPackage(<<p, Metadata(p)[i].version>>)

\* C2: a call that finds a cached file failing its checksum deletes it and
\* fetches exactly once; matching bytes are stored and the call returns, and if
\* the fetched bytes fail too the call raises and no file is left.
ChecksumSelfHealing ==
    LET c == dl[1]
    IN  c.stale =>
          /\ c.fetches <= 1
          /\ (c.pc \in {"fetch", "body", "ensure", "write"} => ~hasPackage(c.art))
          /\ (c.pc \in {"returned", "raised"} => c.fetches = 1)
          /\ (c.pc = "returned" =>
                /\ c.data # NoContent
                /\ IsDigestOf(c.expected, c.data)
                /\ hasPackage(c.art)
                /\ files[c.art] = c.data)
          /\ (c.pc = "raised" =>
                /\ ~hasPackage(c.art)
                /\ (c.data # NoContent => ~IsDigestOf(c.expected, c.data)))

\* the cached file and the re-fetched bytes both fail the checksum: one fetch
\* was made, the call raised and the path is empty
ChecksumSelfHealingWitness ==
    /\ dl[1].stale
    /\ dl[1].pc = "raised"
    /\ dl[1].data = 2
    /\ dl[1].fetches = 1
    /\ ~hasPackage(DlArt)

\* C3: with a file at the artifact path, downloadPackage returns without a
\* fetch and without touching the file exactly when no checksum was supplied
\* or the file's checksum equals the expected one.
CachedFileTrusted ==
    LET c == dl[1]
        trusted == ~ChecksumSupplied(c.expected) \/ IsDigestOf(c.expected, c.entryFile)
    IN  (c.pc # "idle" /\ c.entryFile # NoContent) =>
          /\ trusted =>
                /\ c.pc \in {"verify1", "returned", "killed"}
                /\ c.fetches = 0
                /\ hasPackage(c.art)
                /\ files[c.art] = c.entryFile
          /\ (~trusted /\ c.pc \in {"returned", "raised"}) => c.fetches >= 1

\* a cached body 1 is trusted against its digest given in upper case
CachedFileTrustedWitness ==
    /\ dl[1].pc = "returned"
    /\ dl[1].fetches = 0
    /\ dl[1].entryFile = 1
    /\ dl[1].expected = <<"A", "1">>
    /\ files[DlArt] = 1

\* C4: when the fetch comes back with a non-success status, downloadPackage
\* raises and has created neither the file nor its directory.
NonOkResponseWritesNothing ==
    LET c == dl[1]
    IN  (c.pc = "raised" /\ c.status # 0 /\ ~(c.status \in 200..299)) =>
          /\ ~hasPackage(c.art)
          /\ (DirOf(c.art) \in dirs) = c.entryDir

\* a 404 on an artifact whose directory did not exist
NonOkResponseWitness ==
    /\ dl[1].pc = "raised"
    /\ dl[1].status = 404
    /\ ~dl[1].entryDir
    /\ dirs = {}
    /\ files = <<>>

\* C5: starting from an empty cache and with every call supplying the checksum,
\* whenever no downloadPackage is executing (returned, raised or interrupted) a
\* file at the artifact path matches the expected checksum.
NoCorruptArtifactLeft ==
    (/\ initFiles = <<>>
     /\ allChecked
     /\ calls > 0
     /\ ~Executing(1)
     /\ hasPackage(DlArt)) => IsDigestOf(dl[1].expected, files[DlArt])

\* C6: with strict and without full, resolve returns exactly the listed
\* packages that some pattern denotes, and an empty skipped map.
StrictResolvesExactMatches ==
    (rpc = "done" /\ opts.strict /\ ~opts.full) =>
        /\ SeqToSet(res.packages) = {id \in Listed : PatternDenotes(id)}
        /\ DOMAIN res.skipped = {}

\* the example of the specification: b/z depends on the listed a/x, the
\* pattern is b/*, the result is {b/z}
StrictResolveWitness ==
    /\ rpc = "done"
    /\ opts.strict /\ ~opts.full
    /\ opts.patterns = <<(<<"b", "/", "*">>)>>
    /\ Readable(IdBZ) /\ LatestDeps(IdBZ) = {IdAX}
    /\ IdAX \in Listed
    /\ res.packages = <<IdBZ>>

\* C7: without strict, a dependency of the latest non-yanked version of a
\* processed package that no pattern denotes is in packages only as a seed of
\* a full run, and otherwise is a key of skipped with the package listed.
UnmatchedDepsSkipped ==
    ~opts.strict =>
        \A p \in processed :
            Readable(p) =>
                \A d \in LatestDeps(p) :
                    ~PatternDenotes(d) =>
                        IF d \in SeqToSet(res.packages)
                        THEN opts.full /\ d \in Listed
                        ELSE d \in DOMAIN res.skipped /\ p \in SeqToSet(res.skipped[d])

\* the example of the specification: skipped = {a/x: [b/z]}, packages = {b/z}
UnmatchedDepsWitness ==
    /\ rpc = "done"
    /\ ~opts.strict /\ ~opts.full
    /\ opts.patterns = <<(<<"b", "/", "*">>)>>
    /\ IdBZ \in processed
    /\ res.packages = <<IdBZ>>
    /\ DOMAIN res.skipped = {IdAX}
    /\ res.skipped[IdAX] = <<IdBZ>>

\* C8: without strict, every listed dependency of the latest non-yanked
\* version of a resolved package is itself resolved.
ListedDepsAreResolved ==
    (rpc = "done" /\ ~opts.strict) =>
        \A p \in SeqToSet(res.packages) :
            Readable(p) =>
                \A d \in LatestDeps(p) : d \in Listed => d \in SeqToSet(res.packages)

MatchGlobIsAnchoredGlob ==
    gCalled => (gOut = GlobDenotes(gStr, gPattern))

\* C11: matchGlob("a/b", "a/*") is true and matchGlob("a/bc/d", "a/*") is
\* false: owner/* does not match an id with a further '/'-separated segment.
OwnerStarStopsAtSegment ==
    (gCalled /\ gPattern = <<"a", "/", "*">>) =>
        /\ (gStr = <<"a", "/", "b">> => gOut)
        /\ (gStr = <<"a", "/", "b", "c", "/", "d">> => ~gOut)

\* the place of a source in the source manager's table (names are its keys)
DeclaredAt(s) == CHOOSE i \in 1..Len(sourceManager.sources) : sourceManager.sources[i].name = s.name

\* the priority a source is ordered by: its own, or 100 when it declares none
OrderedAs(s) == IF s.priority = <<>> THEN 100 ELSE s.priority[1]

\* C12: listEnabledSources returns exactly the sources whose enabled flag is
\* true, each once, in ascending priority (a source without a priority counts
\* as 100), sources of equal priority in their declaration order.
ListEnabledSortedStable ==
    sLast.op = "listEnabledSources" =>
        /\ SeqToSet(sLast.out) =
               {sourceManager.sources[i] : i \in {k \in 1..Len(sourceManager.sources) :
                                                    sourceManager.sources[k].enabled}}
        /\ \A i, j \in 1..Len(sLast.out) :
               i < j => \/ OrderedAs(sLast.out[i]) < OrderedAs(sLast.out[j])
                        \/ /\ OrderedAs(sLast.out[i]) = OrderedAs(sLast.out[j])
                           /\ DeclaredAt(sLast.out[i]) < DeclaredAt(sLast.out[j])

\* b and a, both of priority 50 and declared in that order, are listed b, a
ListEnabledTieWitness ==
    /\ sLast.op = "listEnabledSources"
    /\ Len(sourceManager.sources) = 2
    /\ sourceManager.sources[1].name = "b"
    /\ Len(sLast.out) = 2
    /\ sLast.out[1].name = "b" /\ sLast.out[1].priority = <<50>>
    /\ sLast.out[2].name = "a" /\ sLast.out[2].priority = <<50>>

\* q is an initial segment of r
IsPrefix(q, r) == Len(q) <= Len(r) /\ \A i \in 1..Len(q) : q[i] = r[i]

\* the priority the source called name is ordered by
OrderedAsNamed(name) == OrderedAs(MapGet(sourceManager.sources, name)[1])

\* C13: downloadPackageWithFallback attempts the enabled sources one at a time
\* in listEnabledSources order, which is priority order, and stops at the
\* first success: the sources contacted are an initial segment of that order,
\* every one before the last failed, a returned call that contacted a source
\* succeeded at the last one, and the aggregate error is raised only when
\* every enabled source was contacted.
FallbackStopsAtFirstSuccess ==
    fb.pc # "idle" =>
        /\ IsPrefix(fb.tried, SourceNamesOf(listEnabledSources(sourceManager)))
        /\ \A i, j \in 1..Len(fb.tried) :
               i < j => OrderedAsNamed(fb.tried[i]) <= OrderedAsNamed(fb.tried[j])
        /\ \A i \in 1..(Len(fb.tried) - 1) : fb.tried[i] \notin fb.reach
        /\ (fb.pc = "returned" /\ fb.tried # <<>>) => fb.tried[Len(fb.tried)] \in fb.reach
        /\ fb.pc = "raised" =>
               /\ fb.tried = SourceNamesOf(listEnabledSources(sourceManager))
               /\ \A i \in 1..Len(fb.tried) : fb.tried[i] \notin fb.reach

\* a, of higher precedence, has the package and b is unreachable: the call
\* returns having contacted a alone
FallbackFirstWinsWitness ==
    /\ fb.pc = "returned"
    /\ SourceNamesOf(listEnabledSources(sourceManager)) = <<"a", "b">>
    /\ SourceNamesOf(sourceManager.sources) = <<"b", "a">>
    /\ fb.reach = {"a"}
    /\ fb.tried = <<"a">>

\* C14: in a mirror run a version is counted as failed only after
\* downloadPackage was called for it with every enabled source: the selected
\* one first, then the remaining ones in priority order.
MirrorFallsBackBeforeFailing ==
    [][(mpc = "awaiting" /\ failed' = failed + 1) =>
           /\ Len(mTried) = Len(listEnabledSources(sourceManager))
           /\ mTried[1] = mSel[1].name
           /\ SeqToSet(mTried) = SeqToSet(SourceNamesOf(listEnabledSources(sourceManager)))]_vars

\* the name mirror was given is not in the table
SourceUnconfigured == mSource # NoName /\ ~MapHas(sourceManager.sources, mSource)

\* the source mirror was given, or the default when it was given none, is in
\* the table with its enabled flag off
SourceDisabled ==
    \E i \in 1..Len(sourceManager.sources) :
        /\ sourceManager.sources[i].name =
               (IF mSource # NoName THEN mSource ELSE sourceManager.defaultSourceName)
        /\ ~sourceManager.sources[i].enabled

\* C15: mirror called with a source name that is not configured, or with a
\* source (named or default) that is disabled, aborts at once: its first step
\* ends in the error with no index sync, resolution or download started, and
\* the index directory and the package cache stay as they were from then on.
MirrorAbortsOnBadSource ==
    [][/\ (mpc = "start" /\ (SourceUnconfigured \/ SourceDisabled)) =>
              /\ mpc' = "error"
              /\ syncRes' = "none" /\ rpc' = "uncalled" /\ dl'[1].pc = "idle"
              /\ UNCHANGED <<index, idxExists, files, dirs>>
       /\ mpc = "error" => UNCHANGED <<index, idxExists, files, dirs, rpc, syncRes, dl>>]_vars

\* a run on the default source, which is disabled, has ended in the error
MirrorDisabledDefaultWitness ==
    /\ mpc = "error"
    /\ mSource = NoName
    /\ SourceDisabled
    /\ ~idxExists /\ syncRes = "none" /\ rpc = "uncalled" /\ files = initFiles

\* the non-yanked versions among vs
LiveVersions(vs) == Len(SelectSeq(vs, LAMBDA v : ~v.yanked))

\* what a run over pkgs has to account for: one failure for each package the
\* index cannot give, one attempt for each non-yanked version of the others
RECURSIVE ItemsDue(_)
ItemsDue(pkgs) ==
    IF pkgs = <<>> THEN 0
    ELSE ItemsDue(Tail(pkgs)) +
         (IF ~parsePackageId(Head(pkgs)) THEN 0
          ELSE IF ~HasMetadata(Head(pkgs)) THEN 1
          ELSE LiveVersions(Metadata(Head(pkgs))))

\* C16: in a mirror run a failed item (a package the index cannot give, a
\* fetch that fails, a checksum that does not match) is counted and the run
\* goes on: a run with failures never ends in the error, it can always take
\* its next step until the summary, and at the summary every non-yanked
\* version of every to-download package has been attempted and counted.
MirrorIsolatesFailures ==
    /\ failed > 0 => mpc # "error"
    /\ (failed > 0 /\ mpc # "done") => ENABLED NextMirror
    /\ mpc = "done" =>
           downloaded + failed = ItemsDue(ToDownloadOf(res.packages, res.cached))

\* a/x cannot be read from the index and is counted failed, then b/z, behind
\* it, is downloaded and the run ends with its summary
MirrorGoesOnWitness ==
    /\ mpc = "done"
    /\ index[IdAX].state = "corrupt"
    /\ failed = 1
    /\ downloaded = 1
    /\ \E v \in DOMAIN files : v[1] = IdBZ

\* C17: getPackageFromSource returns null for a package whose index file is
\* absent, and for a file that exists but fails to parse it hands its caller
\* something other than the null of not-found.
ReadFailureDistinctFromNotFound ==
    mpc \in {"loop", "versions", "awaiting", "done"} =>
        \A id \in SeqToSet(res.packages) \cap IndexIds :
            /\ index[id].state = "absent" => getPackageFromSource(id) = <<>>
            /\ index[id].state = "corrupt" => getPackageFromSource(id) # <<>>

\* C18: when the clone of a source index that is not yet on disk fails, the
\* mirror call ends in an error: no resolution is started and nothing is
\* downloaded against the missing index.
CloneFailureFailsMirror ==
    syncRes = "clone-failed" =>
        /\ mpc = "error"
        /\ rpc = "uncalled"
        /\ dl[1].pc = "idle"

\* C19: after setDefaultSource(name) has succeeded, getSource() with the name
\* omitted returns the source called name.
DefaultFollowsSetDefault ==
    (sLast.op = "setDefaultSource" /\ sLast.ok) =>
        /\ getSource(sourceManager, NoName) # <<>>
        /\ getSource(sourceManager, NoName)[1].name = sLast.name

BuiltFromConfig == sourceManager = loadSources(config)

\* the entries of the configured list called name
Configured(name) == SelectSeq(config.sources, LAMBDA s : s.name = name)

LegacyUpstreamSynthesized ==
    /\ (config.upstream # <<>> /\ config.sources = <<>>) =>
           /\ Len(sourceManager.sources) = 1
           /\ sourceManager.sources[1].name = "upstream"
           /\ sourceManager.sources[1].priority = <<0>>
           /\ sourceManager.sources[1].url = config.upstream[1].url
           /\ sourceManager.sources[1].index_url = config.upstream[1].index_url
           /\ sourceManager.sources[1].enabled = config.upstream[1].enabled
           /\ sourceManager.defaultSourceName = "upstream"
           /\ getSource(sourceManager, NoName) = <<sourceManager.sources[1]>>
    /\ config.sources # <<>> => sourceManager.sources = config.sources

\* the last configured source was removed from a configuration with a
\* disabled upstream section: the table holds the legacy source again
LegacyUpstreamWitness ==
    /\ sLast.op = "removeSource" /\ sLast.ok
    /\ config.sources = <<>>
    /\ config.upstream = <<Upstream(FALSE)>>
    /\ Len(sourceManager.sources) = 1
    /\ ~sourceManager.sources[1].enabled
    /\ sourceManager.sources[1].url = UpstreamUrl

IndexAppendOnly ==
    /\ [](wr.pc \in {"idle", "returned", "raised"} =>
              \A p \in PkgPaths :
                  getPackage(p[1], p[2]) =
                      (IF written[p] = <<>> THEN <<>> ELSE <<VersionsOf(written[p])>>))
    /\ [][\A p \in DOMAIN indexFiles :
              /\ p \in DOMAIN indexFiles'
              /\ IsPrefix(indexFiles[p], indexFiles'[p])
              /\ p # Split(wr.entry[1].name, "/") => indexFiles'[p] = indexFiles[p]]_vars

\* two entries written for a/x, the first with a line feed in its version,
\* and both read back in order
IndexAppendWitness ==
    /\ wr.pc = "returned" /\ wr.n = 2
    /\ Len(written[<<(<<"a">>), (<<"x">>)>>]) = 2
    /\ written[<<(<<"a">>), (<<"x">>)>>][1].version = VNl
    /\ written[<<(<<"a">>), (<<"x">>)>>][2].version = V10
    /\ getPackage(<<"a">>, <<"x">>) = <<VersionsOf(written[<<(<<"a">>), (<<"x">>)>>])>>


\* C26: the default source uses the index root directly: when mirror runs
\* without a source name, the directory it has synced, and resolves from, is
\* the index root, the directory getPackage and listPackages read.
DefaultSourceUsesIndexRoot ==
    (mSource = NoName /\ mIndexPath # NoPath) =>
        /\ mIndexPath = IndexRoot
        /\ getSourceIndexPath(mSel[1].name) = IndexRoot


\* the call has reached its Bun.write
HasWritten(q) ==
    dl[q].fetches > 0 /\ dl[q].pc \in {"writing", "verify2", "remove2", "returned", "raised"}
                      /\ dl[q].data # NoContent

\* C27: two downloadPackage calls in flight for one artifact with one expected
\* checksum are kept apart by nothing: a call whose fetched body has the
\* expected digest ends in a checksum failure, deleting the file, only when
\* the other call has written to the same path, and it can do so while the
\* other call ends with its file verified.
ConcurrentDownloadsRace ==
    \A p \in DlProcs :
        (dl[p].pc \in {"remove2", "raised"} /\ dl[p].err \in {"none", "checksum"}
            /\ dl[p].data # NoContent /\ IsDigestOf(dl[p].expected, dl[p].data)) =>
            \E q \in DlProcs \ {p} : HasWritten(q) /\ dl[q].expected = dl[p].expected

\* both calls fetched the body with the expected digest; the first returned
\* with its file verified, the second failed the checksum and deleted the file
ConcurrentDownloadsWitness ==
    /\ dl[1].pc = "returned" /\ dl[1].fetches = 1
    /\ dl[2].pc = "raised" /\ dl[2].err = "checksum"
    /\ dl[1].expected = dl[2].expected
    /\ IsDigestOf(dl[1].expected, dl[1].data)
    /\ IsDigestOf(dl[2].expected, dl[2].data)
    /\ ~hasPackage(DlArt)


\* q is the end of r
IsSuffix(q, r) == Len(q) <= Len(r) /\ SubSeq(r, Len(r) - Len(q) + 1, Len(r)) = q

\* the version the mirror run has last taken from the current package's list
VersionTaken ==
    getPackageFromSource(curPkg)[1][Len(getPackageFromSource(curPkg)[1]) - Len(verQueue)]

\* C28: within a mirror run at most one downloadPackage call is in progress;
\* a call starts only when none is pending (the previous one has returned or
\* raised and has been counted), and the calls follow the resolved list of
\* packages to download and, within a package, its list of versions.
MirrorDownloadsSequential ==
    /\ [](Cardinality({p \in DlProcs : dl[p].pc # "idle"}) <= 1)
    /\ [](mpc \in {"versions", "awaiting"} =>
              /\ IsSuffix(<<curPkg>> \o toDownload, ToDownloadOf(res.packages, res.cached))
              /\ getPackageFromSource(curPkg) # <<>>
              /\ IsSuffix(verQueue, getPackageFromSource(curPkg)[1])
              /\ mpc = "awaiting" =>
                     /\ dl[1].art = <<curPkg, VersionTaken.version>>
                     /\ ~VersionTaken.yanked)
    /\ [][(\E p \in DlProcs : dl[p].pc = "idle" /\ dl'[p].pc # "idle") =>
              /\ \A q \in DlProcs : dl[q].pc = "idle"
              /\ mpc = "versions" /\ mpc' = "awaiting"]_vars

\* the download of the second version of a/x is in progress, after the
\* download of its first version has settled and before b/z is taken up
MirrorSecondDownloadWitness ==
    /\ mpc = "awaiting"
    /\ Executing(1)
    /\ curPkg = IdAX
    /\ dl[1].art = <<IdAX, V20>>
    /\ downloaded + failed = 1
    /\ verQueue = <<>>
    /\ toDownload = <<IdBZ>>


\* the worklist package's metadata cannot be read, or it has no version that
\* is not yanked
Unfollowable(p) ==
    \/ getPackageFromSource(p) = <<>>
    \/ \A i \in 1..Len(getPackageFromSource(p)[1]) : getPackageFromSource(p)[1][i].yanked

\* C29: in the transitive closure, a worklist package whose metadata cannot be
\* read (file absent or unparsable) or that has no non-yanked version is
\* passed over: the step that takes it changes neither packages nor skipped,
\* the package stays in the result, skipped never lists it as a dependent, and
\* the step is always there to take, leaving the loop running.
UnreadablePackageIsPassedOver ==
    /\ [][(rpc = "closure" /\ toProcess # <<>> /\ Unfollowable(Head(toProcess))) =>
              /\ res' = res
              /\ Head(toProcess) \in SeqToSet(res'.packages)
              /\ toProcess' = SetDelete(toProcess, Head(toProcess))
              /\ rpc' = "closure"]_vars
    /\ [](\A p \in processed :
              Unfollowable(p) =>
                  /\ p \in SeqToSet(res.packages)
                  /\ \A k \in DOMAIN res.skipped : p \notin SeqToSet(res.skipped[k]))
    /\ []((rpc = "closure" /\ toProcess # <<>> /\ Unfollowable(Head(toProcess))) =>
              ENABLED ClosureStep)

\* a resolution that ended with a/x unparsable and b/z all yanked, both in
\* the result and nothing skipped
UnreadablePackageWitness ==
    /\ rpc = "done"
    /\ ~opts.strict
    /\ index[IdAX].state = "corrupt"
    /\ index[IdBZ].state = "ok" /\ Len(index[IdBZ].versions) = 2
    /\ \A i \in 1..2 : index[IdBZ].versions[i].yanked /\ index[IdBZ].versions[i].deps # <<>>
    /\ processed = {IdAX, IdBZ}
    /\ res.packages = <<IdAX, IdBZ>>
    /\ DOMAIN res.skipped = {}


\* the base-10 integer a version part is read as: the number its leading
\* digits write, 0 for a part that is missing or starts with no digit
RECURSIVE DecimalValue(_)
DecimalValue(ds) ==
    IF ds = <<>> THEN 0
    ELSE 10 * DecimalValue(SubSeq(ds, 1, Len(ds) - 1)) + DigitVal(ds[Len(ds)])

NumeralOf(part) ==
    IF part = <<>> \/ part[1] \notin Digits THEN <<>>
    ELSE SubSeq(part, 1, CHOOSE n \in 1..Len(part) :
                             /\ \A i \in 1..n : part[i] \in Digits
                             /\ n < Len(part) => part[n + 1] \notin Digits)

PartValue(v, i) ==
    IF i > Len(Split(v, ".")) THEN 0 ELSE DecimalValue(NumeralOf(Split(v, ".")[i]))

\* version w is strictly greater than version v, parts compared left to right
StrictlyGreater(w, v) ==
    \E i \in 1..(MaxStrLen + 1) :
        /\ PartValue(w, i) > PartValue(v, i)
        /\ \A j \in 1..(i - 1) : PartValue(w, j) = PartValue(v, j)

\* the first line of the list that is not yanked and that no line that is not
\* yanked exceeds
FirstGreatestLive(vs) ==
    CHOOSE k \in 1..Len(vs) :
        /\ ~vs[k].yanked
        /\ \A i \in 1..Len(vs) : ~vs[i].yanked => ~StrictlyGreater(vs[i].version, vs[k].version)
        /\ \A i \in 1..(k - 1) :
               vs[i].yanked \/ StrictlyGreater(vs[k].version, vs[i].version)

\* C30: the version whose dependencies the closure follows is not yanked, no
\* other version that is not yanked is strictly greater under the part-wise
\* base-10 comparison, and of the versions that compare equal it is the one
\* listed first; the dependencies the closure has taken up for a processed
\* package are the dependencies of that line and of no other.
LatestIsFirstGreatestLive ==
    \A p \in processed :
        (HasMetadata(p) /\ \E i \in 1..Len(Metadata(p)) : ~Metadata(p)[i].yanked) =>
            /\ getLatestVersion(Metadata(p)) = <<Metadata(p)[FirstGreatestLive(Metadata(p))]>>
            /\ ~getLatestVersion(Metadata(p))[1].yanked
            /\ (SeqToSet(res.packages) \ {p}) \cup DOMAIN res.skipped
                   = SeqToSet(Metadata(p)[FirstGreatestLive(Metadata(p))].deps)

\* a/x lists 2 (yanked, depending on q), then 1.a and 1.0, which compare
\* equal, then nothing greater: the closure followed 1.a, the first of them
LatestTieWitness ==
    /\ rpc = "done"
    /\ Len(index[IdAX].versions) = 3
    /\ index[IdAX].versions[1].version = <<"2">> /\ index[IdAX].versions[1].yanked
    /\ index[IdAX].versions[1].deps = <<IdQ>>
    /\ index[IdAX].versions[2].version = <<"1", ".", "a">> /\ ~index[IdAX].versions[2].yanked
    /\ index[IdAX].versions[2].deps = <<IdAY>>
    /\ index[IdAX].versions[3].version = V10 /\ ~index[IdAX].versions[3].yanked
    /\ index[IdAX].versions[3].deps = <<IdQ>>
    /\ res.packages = <<IdAX, IdAY>>
    /\ DOMAIN res.skipped = {}


\* C31: of the skipped dependencies of a resolution, a warning is logged for
\* exactly those that are not cached (no version of them has an artifact in
\* the package store), and for none when quiet is set.
SkippedWarningsSpareCached ==
    rpc = "done" =>
        \A d \in DOMAIN res.skipped :
            d \in logSkippedWarnings(res, opts.quiet) <=> (~opts.quiet /\ ~isPackageCached(d))


\* the closure run to its end in the order of the code, from the state
\* st = [packages, toProcess, skipped] with the set done already processed
RECURSIVE DrainInOrder(_, _)
DrainInOrder(st, done) ==
    IF st.toProcess = <<>> THEN st
    ELSE LET pkgName == Head(st.toProcess)
             rest == [st EXCEPT !.toProcess = SetDelete(st.toProcess, pkgName)]
             latest == getLatestVersion(Metadata(pkgName))
         IN  IF pkgName \in done THEN DrainInOrder(rest, done)
             ELSE IF parsePackageId(pkgName) /\ HasMetadata(pkgName) /\ latest # <<>>
                  THEN DrainInOrder(DepLoop(rest, latest[1].deps, pkgName, opts.patterns),
                                    done \cup {pkgName})
                  ELSE DrainInOrder(rest, done \cup {pkgName})

\* what resolve leaves in packages and skipped when the worklist is drained
\* first-added first
InsertionOrderResult ==
    DrainInOrder([packages |-> SetAddAll(<<>>, matchPatterns(opts.patterns, opts.full)),
                  toProcess |-> SetAddAll(<<>>, matchPatterns(opts.patterns, opts.full)),
                  skipped |-> <<>>], {})

\* C32: the result of resolve does not depend on the order in which the
\* worklist is drained: whatever the order, packages is the set the
\* insertion-order drain yields, skipped has the same keys, and each key has
\* the same set of requiring packages, each listed once.
ResolveIsOrderIndependent ==
    (rpc = "done" /\ ~opts.strict) =>
        \A inOrder \in {InsertionOrderResult} :
            /\ SeqToSet(res.packages) = SeqToSet(inOrder.packages)
            /\ DOMAIN res.skipped = DOMAIN inOrder.skipped
            /\ \A d \in DOMAIN res.skipped :
                   /\ SeqToSet(res.skipped[d]) = SeqToSet(inOrder.skipped[d])
                   /\ Cardinality(SeqToSet(res.skipped[d])) = Len(res.skipped[d])

\* both a/x and b/z skip q, and the worklist was drained b/z first, the
\* reverse of the order of the code
ResolveOtherOrderWitness ==
    /\ rpc = "done"
    /\ ~opts.strict
    /\ DOMAIN res.skipped = {IdAY, IdQ}
    /\ res.skipped[IdQ] = <<IdBZ, IdAX>>
    /\ InsertionOrderResult.skipped[IdQ] = <<IdAX, IdBZ>>


\* the owner directories of the index path: the directories directly inside
\* it whose name neither starts with '.' nor is 'sources'
OwnerDirs ==
    {u \in (IF tree.exists THEN SeqToSet(TopNames) ELSE {}) :
        tree.kind[u] = "dir" /\ u[1] # "." /\ u # <<"s", "o", "u", "r", "c", "e", "s">>}

\* C33: listPackagesFromSource returns exactly the ids owner/file of the
\* regular files directly inside the owner directories of the index path,
\* each once, and the empty list when the index path does not exist.
ListingIsOwnerFiles ==
    listed.called =>
        /\ SeqToSet(listed.out) =
               UNION {{u \o <<"/">> \o f :
                          f \in {g \in SeqToSet(SubNames) : tree.sub[u][g] = "file"}} :
                      u \in OwnerDirs}
        /\ Cardinality(SeqToSet(listed.out)) = Len(listed.out)
        /\ ~tree.exists => listed.out = <<>>

\* the index path holds .g/x, a/.h, a/x, s/x and sources/x, and a directory
\* a/... is not a package: the listing is a/.h, a/x, s/x
ListingWitness ==
    /\ listed.called
    /\ tree.exists
    /\ \A u \in SeqToSet(TopNames) : tree.kind[u] = "dir" /\ tree.sub[u][<<"x">>] = "file"
    /\ tree.sub[<<"a">>][<<".", "h">>] = "file"
    /\ tree.sub[<<"s">>][<<".", "h">>] = "dir"
    /\ listed.out = <<(<<"a", "/", ".", "h">>), (<<"a", "/", "x">>), (<<"s", "/", "x">>)>>


\* C34: after removeSource(name) has succeeded no source called name remains:
\* hasSource(name) is false and listSources() holds no source of that name.
RemovedSourceIsGone ==
    (sLast.op = "removeSource" /\ sLast.ok) =>
        /\ ~hasSource(sourceManager, sLast.name)
        /\ \A i \in 1..Len(listSources(sourceManager)) :
               listSources(sourceManager)[i].name # sLast.name


\* C35: in every result of resolve no key of skipped is in packages, and so
\* none is in cached.
SkippedDisjointFromPackages ==
    rpc = "done" =>
        /\ DOMAIN res.skipped \cap SeqToSet(res.packages) = {}
        /\ DOMAIN res.skipped \cap res.cached = {}

\* a resolve of a/* whose closure took a/y, a dependency of the cached a/x,
\* into packages and recorded its other dependency q as skipped
SkippedDisjointWitness ==
    /\ rpc = "done"
    /\ ~opts.full /\ ~opts.strict
    /\ opts.patterns = <<(<<"a", "/", "*">>)>>
    /\ res.packages = <<IdAX, IdAY>>
    /\ res.cached = {IdAX}
    /\ DOMAIN res.skipped = {IdQ}


\* the packages a strict resolve of the same patterns over the same index
\* returns: the seeds, with no closure over them
StrictResolution == SetAddAll(<<>>, matchPatterns(opts.patterns, opts.full))

\* C36: without full, a strict and a non-strict resolve of the same patterns
\* return the same set of packages that exist in the source index: the
\* closure only adds ids that the listing does not contain.
StrictAgreesOnListedPackages ==
    (rpc = "done" /\ ~opts.full) =>
        /\ opts.strict => res.packages = StrictResolution
        /\ SeqToSet(res.packages) \cap Listed = SeqToSet(StrictResolution)

\* a non-strict resolve of a/* over an index listing a/x and b/z: the closure
\* added a/y, which the index does not list, and left b/z out
StrictAgreesWitness ==
    /\ rpc = "done"
    /\ ~opts.full /\ ~opts.strict
    /\ Listed = {IdAX, IdBZ}
    /\ StrictResolution = <<IdAX>>
    /\ SeqToSet(res.packages) = {IdAX, IdAY}


\* C37: a successful addSource(s) only adds s: every source listSources()
\* reported before the call is still reported after it, with the same fields,
\* also when the configuration had only the legacy upstream block.
AddSourceKeepsListedSources ==
    [][(sLast'.op = "addSource" /\ sLast'.ok /\ sLast' # sLast) =>
           \A i \in 1..Len(listSources(sourceManager)) :
               \E j \in 1..Len(listSources(sourceManager')) :
                   listSources(sourceManager')[j] = listSources(sourceManager)[i]]_vars


\* C38: after a mirror run in which no download raised, every cache file of
\* a non-yanked version of a resolved package matches the checksum the index
\* gives for that version, also when the cache held a corrupt file before.
MirrorLeavesVerifiedFiles ==
    (mpc = "done" /\ mRaised = 0) =>
        \A p \in SeqToSet(res.packages) :
            (parsePackageId(p) /\ HasMetadata(p)) =>
                \A i \in 1..Len(Metadata(p)) :
                    (/\ ~Metadata(p)[i].yanked
                     /\ Truthy(Metadata(p)[i].checksum)
                     /\ hasPackage(<<p, Metadata(p)[i].version>>)) =>
                        verifyChecksum(files[<<p, Metadata(p)[i].version>>],
                                       Metadata(p)[i].checksum)


\* C39: when two writePackageEntry calls for the same package overlap, the
\* entries of both are in the package's file once both have completed:
\* getPackage returns the entry of every call that returned.
OverlappingWritesBothKept ==
    (wr.pc \in {"idle", "returned", "raised"} /\ wr2.pc = "returned") =>
        \A p \in {q \in PkgPaths : written[q] # <<>>} :
            /\ getPackage(p[1], p[2]) # <<>>
            /\ \A i \in 1..Len(written[p]) :
                   \E j \in 1..Len(getPackage(p[1], p[2])[1]) :
                       getPackage(p[1], p[2])[1][j] = VersionsOf(written[p])[i]

====
